---- MODULE Spec2Model ----
(***************************************************************************)
(* Model of the candidate search pipeline's filter session log             *)
(* (src/filter_logger.py) and of the search that drives it                 *)
(* (src/search_engine.py, src/utils.py).                                   *)
(*                                                                         *)
(* Conventions.  A Python value that may be None is a sequence of length   *)
(* 0 (None) or 1 (the value).  A dict with optional keys is a record whose *)
(* DOMAIN holds the keys present; Get is dict.get.  A Python str that the  *)
(* code concatenates or searches is a sequence of segments, so that        *)
(* formatting and substring search are computed, not assumed.  A float is  *)
(* an exact fraction [num, den] or a scaled integer.  Wall-clock           *)
(* timestamps (datetime.now()) are not modelled: they are written once     *)
(* and never read by the code.                                             *)
(***************************************************************************)
EXTENDS Integers, Sequences, FiniteSets, TLC

VARIABLES
    current_session,   \* FilterLogger.current_session: <<>> or <<session>>
    all_sessions,      \* FilterLogger.all_sessions: the closed collection
    log_file,          \* the durable copy at FilterLogger.log_file
    last_op,           \* the logger call just made and its I/O outcome
    pc,                \* per search: position in CandidateSearchEngine.search
    args,              \* per search: <<>> or <<[query, job_config, top_k]>>
    processed,         \* per search: processed_candidates
    filtered,          \* per search: filtered_candidates
    result,            \* per search: the returned id list
    mark,              \* per search: len(all_sessions) when search was called
    retrieval,         \* per search: how enhanced_hybrid_search went
    overlapped,        \* some start...end section began inside another one
    ended              \* the searches that called end_session, in call order

logvars == <<current_session, all_sessions, log_file, last_op>>
searchvars == <<pc, args, processed, filtered, result, mark, retrieval, overlapped, ended>>
vars == <<current_session, all_sessions, log_file, last_op,
          pc, args, processed, filtered, result, mark, retrieval, overlapped, ended>>

-----------------------------------------------------------------------------
(* Bounds of the model *)

MaxSessions == 2      \* closed sessions kept in all_sessions
MaxFailures == 2      \* failures held by the log (closed and open sessions)
MaxRetrieved == 2     \* candidates one retrieval returns
MaxSearches == 2      \* searches run over the life of the engine

-----------------------------------------------------------------------------
(* Generic helpers *)

\* dict.get(k, d)
Get(c, k, d) == IF k \in DOMAIN c THEN c[k] ELSE d

Max(a, b) == IF a >= b THEN a ELSE b
Min(a, b) == IF a <= b THEN a ELSE b

RECURSIVE SumSeq(_)
\* sum(...) over a sequence of integers, left to right
SumSeq(s) == IF s = <<>> THEN 0 ELSE Head(s) + SumSeq(Tail(s))

RECURSIVE FlatFailures(_)
\* the failures of a sequence of sessions in iteration order
\* (for session in all_sessions: for failure in session.filter_failures)
FlatFailures(ss) ==
    IF ss = <<>> THEN <<>>
    ELSE Head(ss).filter_failures \o FlatFailures(Tail(ss))

-----------------------------------------------------------------------------
(* src/filter_logger.py *)

\* FilterFailure(...) as built by log_filter_failure
FilterFailure(candidate, filter_type, filter_name, reason, expected_value, actual_value) ==
    [candidate_id   |-> Get(candidate, "id", "unknown"),
     candidate_name |-> Get(candidate, "name", "Unknown"),
     filter_type    |-> filter_type,
     filter_name    |-> filter_name,
     reason         |-> reason,
     expected_value |-> expected_value,
     actual_value   |-> actual_value]

\* FilterSession(...) as built by start_session
FilterSession(job_config_name, query, total_candidates) ==
    [job_config_name            |-> job_config_name,
     query                      |-> query,
     total_candidates           |-> total_candidates,
     candidates_after_filtering |-> 0,
     filter_failures            |-> <<>>]

\* dataclasses.asdict on a session: a dict of the same fields, the failures
\* converted one by one
asdict(session) ==
    [job_config_name            |-> session.job_config_name,
     query                      |-> session.query,
     total_candidates           |-> session.total_candidates,
     candidates_after_filtering |-> session.candidates_after_filtering,
     filter_failures            |->
        [i \in 1..Len(session.filter_failures) |->
            [candidate_id   |-> session.filter_failures[i].candidate_id,
             candidate_name |-> session.filter_failures[i].candidate_name,
             filter_type    |-> session.filter_failures[i].filter_type,
             filter_name    |-> session.filter_failures[i].filter_name,
             reason         |-> session.filter_failures[i].reason,
             expected_value |-> session.filter_failures[i].expected_value,
             actual_value   |-> session.filter_failures[i].actual_value]]]

\* the log structure save_to_file dumps
log_data(sessions) ==
    [total_sessions |-> Len(sessions),
     log_version    |-> "1.0",
     sessions       |-> [i \in 1..Len(sessions) |-> asdict(sessions[i])]]

\* the outcomes of open(log_file, 'w') followed by json.dump
IoOutcomes == {"ok", "open_error", "write_error"}

\* save_to_file that dumps the collection as it was before the last append
save_to_file_stale(file, sessions, io) ==
    [file   |-> CASE io = "ok" ->
                       [state |-> "written",
                        data  |-> <<log_data(SubSeq(sessions, 1, Len(sessions) - 1))>>]
                  [] io = "open_error"  -> file
                  [] io = "write_error" -> [state |-> "partial", data |-> <<>>],
     raised |-> FALSE]

\* save_to_file whose except clause misses the I/O errors
save_to_file_uncaught(file, sessions, io) ==
    [file   |-> CASE io = "ok" ->
                       [state |-> "written", data |-> <<log_data(sessions)>>]
                  [] io = "open_error"  -> file
                  [] io = "write_error" -> [state |-> "partial", data |-> <<>>],
     raised |-> io # "ok"]

\* save_to_file, given how the I/O went: the file after the call and whether
\* the call raised.  open(..., 'w') truncates, so a failing dump leaves a
\* partial document; `except Exception` catches every error and prints it.
save_to_file(file, sessions, io) ==
    [file   |-> CASE io = "ok" ->
                       [state |-> "written", data |-> <<log_data(sessions)>>]
                  [] io = "open_error"  -> file
                  [] io = "write_error" -> [state |-> "partial", data |-> <<>>],
     raised |-> FALSE]

\* the record of a logger call: its name, the survivor count passed to
\* end_session, the outcome of its write and whether it raised
Call(op, n, io, raised) == [op |-> op, n |-> n, io |-> io, raised |-> raised]

\* start_session that first closes a session still open
start_session_closes_open(job_config_name, query, total_candidates) ==
    /\ current_session' = <<FilterSession(job_config_name, query, total_candidates)>>
    /\ all_sessions' = all_sessions \o current_session
    /\ UNCHANGED log_file
    /\ last_op' = Call("start", 0, "none", FALSE)

\* start_session
start_session(job_config_name, query, total_candidates) ==
    /\ current_session' = <<FilterSession(job_config_name, query, total_candidates)>>
    /\ UNCHANGED <<all_sessions, log_file>>
    /\ last_op' = Call("start", 0, "none", FALSE)

\* log_filter_failure that, with no session open, adds the failure to the
\* session closed last
log_filter_failure_into_closed(candidate, filter_type, filter_name, reason, expected_value, actual_value) ==
    LET failure == FilterFailure(candidate, filter_type, filter_name,
                                 reason, expected_value, actual_value)
    IN  /\ IF current_session = <<>>
           THEN /\ UNCHANGED current_session
                /\ all_sessions' =
                      IF all_sessions = <<>> THEN all_sessions
                      ELSE [all_sessions EXCEPT
                              ![Len(all_sessions)].filter_failures = Append(@, failure)]
           ELSE /\ current_session' =
                      <<[current_session[1] EXCEPT !.filter_failures = Append(@, failure)]>>
                /\ UNCHANGED all_sessions
        /\ UNCHANGED log_file
        /\ last_op' = Call("log", 0, "none", FALSE)

\* log_filter_failure that assigns a one-element list in place of appending
log_filter_failure_replaces(candidate, filter_type, filter_name, reason, expected_value, actual_value) ==
    /\ IF current_session = <<>>
       THEN UNCHANGED current_session
       ELSE current_session' =
              <<[current_session[1] EXCEPT !.filter_failures =
                    <<FilterFailure(candidate, filter_type, filter_name,
                                    reason, expected_value, actual_value)>>]>>
    /\ UNCHANGED <<all_sessions, log_file>>
    /\ last_op' = Call("log", 0, "none", FALSE)

\* log_filter_failure
log_filter_failure(candidate, filter_type, filter_name, reason, expected_value, actual_value) ==
    /\ IF current_session = <<>>
       THEN UNCHANGED current_session
       ELSE current_session' =
              <<[current_session[1] EXCEPT !.filter_failures =
                    Append(@, FilterFailure(candidate, filter_type, filter_name,
                                            reason, expected_value, actual_value))]>>
    /\ UNCHANGED <<all_sessions, log_file>>
    /\ last_op' = Call("log", 0, "none", FALSE)

\* end_session that appends the session without recording the survivor count
end_session_count_dropped(candidates_after_filtering, io) ==
    IF current_session = <<>>
    THEN /\ UNCHANGED <<current_session, all_sessions, log_file>>
         /\ last_op' = Call("end", candidates_after_filtering, "none", FALSE)
    ELSE LET sessions == Append(all_sessions, current_session[1])
             saved == save_to_file(log_file, sessions, io)
         IN  /\ all_sessions' = sessions
             /\ log_file' = saved.file
             /\ current_session' = IF saved.raised THEN current_session ELSE <<>>
             /\ last_op' = Call("end", candidates_after_filtering, io, saved.raised)

\* end_session that inserts the session at the front of the collection
end_session_prepend(candidates_after_filtering, io) ==
    IF current_session = <<>>
    THEN /\ UNCHANGED <<current_session, all_sessions, log_file>>
         /\ last_op' = Call("end", candidates_after_filtering, "none", FALSE)
    ELSE LET sessions == <<[current_session[1] EXCEPT
                              !.candidates_after_filtering = candidates_after_filtering]>>
                         \o all_sessions
             saved == save_to_file(log_file, sessions, io)
         IN  /\ all_sessions' = sessions
             /\ log_file' = saved.file
             /\ current_session' = IF saved.raised THEN current_session ELSE <<>>
             /\ last_op' = Call("end", candidates_after_filtering, io, saved.raised)

\* end_session, with the outcome io of the write it makes; a save_to_file
\* that raised would leave line 78 unexecuted
end_session(candidates_after_filtering, io) ==
    IF current_session = <<>>
    THEN /\ UNCHANGED <<current_session, all_sessions, log_file>>
         /\ last_op' = Call("end", candidates_after_filtering, "none", FALSE)
    ELSE LET sessions == Append(all_sessions,
                            [current_session[1] EXCEPT
                                !.candidates_after_filtering = candidates_after_filtering])
             saved == save_to_file(log_file, sessions, io)
         IN  /\ all_sessions' = sessions
             /\ log_file' = saved.file
             /\ current_session' = IF saved.raised THEN current_session ELSE <<>>
             /\ last_op' = Call("end", candidates_after_filtering, io, saved.raised)

\* f"{failure.filter_type}.{failure.filter_name}"
filter_key(failure) == failure.filter_type \o <<".">> \o failure.filter_name

RECURSIVE failure_breakdown_loop_reset(_, _)
\* the failure_breakdown loop with the count assigned instead of incremented
failure_breakdown_loop_reset(failures, acc) ==
    IF failures = <<>> THEN acc
    ELSE LET key  == filter_key(Head(failures))
             acc0 == IF key \in DOMAIN acc THEN acc ELSE acc @@ (key :> 0)
         IN  failure_breakdown_loop_reset(Tail(failures), [acc0 EXCEPT ![key] = 1])

RECURSIVE failure_breakdown_loop(_, _)
\* get_filter_stats, the failure_breakdown loop: one pass over the failures,
\* creating a key at 0 when first seen and adding 1
failure_breakdown_loop(failures, acc) ==
    IF failures = <<>> THEN acc
    ELSE LET key  == filter_key(Head(failures))
             acc0 == IF key \in DOMAIN acc THEN acc ELSE acc @@ (key :> 0)
         IN  failure_breakdown_loop(Tail(failures), [acc0 EXCEPT ![key] = @ + 1])

\* the float a / b, kept exact
Fraction(a, b) == [num |-> a, den |-> b]

RECURSIVE job_performance_loop(_, _)
\* get_filter_stats, the job_performance loop: one pass over the sessions,
\* creating a zero entry for a job name when first seen and adding the
\* session's figures
job_performance_loop(sessions, acc) ==
    IF sessions = <<>> THEN acc
    ELSE LET session  == Head(sessions)
             job_name == session.job_config_name
             acc0 == IF job_name \in DOMAIN acc THEN acc
                     ELSE acc @@ (job_name :>
                            [total_candidates    |-> 0,
                             filtered_candidates |-> 0,
                             failure_count       |-> 0,
                             filter_rate         |-> Fraction(0, 1)])
         IN  job_performance_loop(Tail(sessions),
                [acc0 EXCEPT
                    ![job_name].total_candidates = @ + session.total_candidates,
                    ![job_name].filtered_candidates =
                        @ + session.candidates_after_filtering,
                    ![job_name].failure_count = @ + Len(session.filter_failures)])

\* get_filter_stats, the filter-rate loop over the job entries
job_filter_rates(perf) ==
    [job_name \in DOMAIN perf |->
        IF perf[job_name].total_candidates > 0
        THEN [perf[job_name] EXCEPT !.filter_rate =
                Fraction(perf[job_name].total_candidates
                            - perf[job_name].filtered_candidates,
                         perf[job_name].total_candidates)]
        ELSE perf[job_name]]

\* get_filter_stats with the overall rate computed as passed / processed
filter_stats_pass_rate(sessions) ==
    IF sessions = <<>> THEN <<>>
    ELSE LET total_candidates ==
                SumSeq([i \in 1..Len(sessions) |-> sessions[i].total_candidates])
             total_filtered ==
                SumSeq([i \in 1..Len(sessions) |->
                            sessions[i].candidates_after_filtering])
             total_failures ==
                SumSeq([i \in 1..Len(sessions) |-> Len(sessions[i].filter_failures)])
         IN  <<[overall_stats |->
                  [total_candidates_processed |-> total_candidates,
                   total_candidates_passed    |-> total_filtered,
                   total_filter_failures      |-> total_failures,
                   overall_filter_rate        |->
                      IF total_candidates > 0
                      THEN Fraction(total_filtered, total_candidates)
                      ELSE Fraction(0, 1)],
                failure_breakdown |->
                  failure_breakdown_loop(FlatFailures(sessions), <<>>),
                job_performance |->
                  job_filter_rates(job_performance_loop(sessions, <<>>))]>>

\* get_filter_stats over a closed collection: <<>> is the empty dict returned
\* when there are no sessions
filter_stats(sessions) ==
    IF sessions = <<>> THEN <<>>
    ELSE LET total_candidates ==
                SumSeq([i \in 1..Len(sessions) |-> sessions[i].total_candidates])
             total_filtered ==
                SumSeq([i \in 1..Len(sessions) |->
                            sessions[i].candidates_after_filtering])
             total_failures ==
                SumSeq([i \in 1..Len(sessions) |-> Len(sessions[i].filter_failures)])
         IN  <<[overall_stats |->
                  [total_candidates_processed |-> total_candidates,
                   total_candidates_passed    |-> total_filtered,
                   total_filter_failures      |-> total_failures,
                   overall_filter_rate        |->
                      IF total_candidates > 0
                      THEN Fraction(total_candidates - total_filtered, total_candidates)
                      ELSE Fraction(0, 1)],
                failure_breakdown |->
                  failure_breakdown_loop(FlatFailures(sessions), <<>>),
                job_performance |->
                  job_filter_rates(job_performance_loop(sessions, <<>>))]>>

\* get_filter_stats that also counts the session still open
get_filter_stats_with_open == filter_stats(all_sessions \o current_session)

\* get_filter_stats(): reads self.all_sessions
get_filter_stats == filter_stats(all_sessions)

\* the fields FilterFailure(**failure) and FilterSession(**session_data) take
FailureFields ==
    {"candidate_id", "candidate_name", "filter_type", "filter_name", "reason",
     "expected_value", "actual_value"}
SessionFields ==
    {"job_config_name", "query", "total_candidates", "candidates_after_filtering",
     "filter_failures"}

\* the outcomes of open(log_file, 'r') followed by json.load
ReadOutcomes == {"ok", "open_error", "read_error"}

RECURSIVE load_sessions(_, _)
\* load_from_file, the loop of lines 163-166 over data.get('sessions', []):
\* the sessions appended to self.all_sessions so far, and whether a
\* constructor raised TypeError (a key missing or unexpected)
load_sessions(session_dicts, acc) ==
    IF session_dicts = <<>> THEN [sessions |-> acc, raised |-> FALSE]
    ELSE LET session_data == Head(session_dicts)
             dicts == Get(session_data, "filter_failures", <<>>)
         IN  IF \E i \in 1..Len(dicts) : DOMAIN dicts[i] # FailureFields
             THEN [sessions |-> acc, raised |-> TRUE]
             ELSE IF DOMAIN session_data \cup {"filter_failures"} # SessionFields
             THEN [sessions |-> acc, raised |-> TRUE]
             ELSE LET failures ==
                          [i \in 1..Len(dicts) |->
                              [candidate_id   |-> dicts[i].candidate_id,
                               candidate_name |-> dicts[i].candidate_name,
                               filter_type    |-> dicts[i].filter_type,
                               filter_name    |-> dicts[i].filter_name,
                               reason         |-> dicts[i].reason,
                               expected_value |-> dicts[i].expected_value,
                               actual_value   |-> dicts[i].actual_value]]
                      session ==
                          [job_config_name            |-> session_data.job_config_name,
                           query                      |-> session_data.query,
                           total_candidates           |-> session_data.total_candidates,
                           candidates_after_filtering |->
                              session_data.candidates_after_filtering,
                           filter_failures            |-> failures]
                  IN  load_sessions(Tail(session_dicts), Append(acc, session))

\* load_from_file whose except clause leaves the sessions decoded so far
load_from_file_partial(file, io) ==
    IF file.state = "absent"
    THEN /\ UNCHANGED <<current_session, all_sessions, log_file>>
         /\ last_op' = Call("load", 0, "none", FALSE)
    ELSE LET loaded ==
                 IF io # "ok" \/ file.state = "partial"
                 THEN [sessions |-> all_sessions, raised |-> TRUE]
                 ELSE load_sessions(Get(file.data[1], "sessions", <<>>), <<>>)
         IN  /\ all_sessions' = loaded.sessions
             /\ UNCHANGED <<current_session, log_file>>
             /\ last_op' = Call("load", 0, io, FALSE)

\* load_from_file, given how the read went.  A missing file is skipped; a
\* failing open or json.load (io, or a truncated document) and a failing
\* constructor are caught by `except Exception`, which empties all_sessions
load_from_file(file, io) ==
    IF file.state = "absent"
    THEN /\ UNCHANGED <<current_session, all_sessions, log_file>>
         /\ last_op' = Call("load", 0, "none", FALSE)
    ELSE LET loaded ==
                 IF io # "ok" \/ file.state = "partial"
                 THEN [sessions |-> all_sessions, raised |-> TRUE]
                 ELSE load_sessions(Get(file.data[1], "sessions", <<>>), <<>>)
         IN  /\ all_sessions' = IF loaded.raised THEN <<>> ELSE loaded.sessions
             /\ UNCHANGED <<current_session, log_file>>
             /\ last_op' = Call("load", 0, io, FALSE)

-----------------------------------------------------------------------------
(* src/utils.py.  A text is a sequence of tokens: [w |-> word] for a run of *)
(* letters and punctuation, [d |-> digits] for a run of decimal digits.     *)
(* Patterns and substring tests are matched token by token.                 *)

W(word) == [w |-> word]
D(digits) == [d |-> digits]
IsWord(tok) == "w" \in DOMAIN tok
IsNum(tok) == "d" \in DOMAIN tok

\* the words of the modelled texts that str.lower() changes
LowerCase == [JD |-> "jd", LLM |-> "llm", Tax |-> "tax", IRS |-> "irs", Bachelor |-> "bachelor",
              Present |-> "present", Audit |-> "audit"]

\* str.lower()
lower(text) ==
    [i \in 1..Len(text) |->
        IF IsWord(text[i]) /\ text[i].w \in DOMAIN LowerCase
        THEN W(LowerCase[text[i].w]) ELSE text[i]]

\* needle in haystack
Contains(haystack, needle) ==
    \E i \in 0..(Len(haystack) - Len(needle)) :
        \A j \in 1..Len(needle) : haystack[i + j] = needle[j]

RECURSIVE int(_)
\* int(str) of a digit string
int(digits) ==
    IF digits = <<>> THEN 0
    ELSE 10 * int(SubSeq(digits, 1, Len(digits) - 1)) + digits[Len(digits)]

\* datetime.now().year
CurrentYear == 2025

Months == {"jan", "feb", "mar", "apr", "may", "jun", "jul", "aug", "sep", "oct", "nov", "dec"}
EndMarkers == {"present", "current", "date", "today"}

IsMonth(text, i) == i <= Len(text) /\ IsWord(text[i]) /\ text[i].w \in Months
HasYearDigits(text, i) == i <= Len(text) /\ IsNum(text[i]) /\ Len(text[i].d) >= 2

\* one attempt of the date-range pattern at token i: <<>> when it does not
\* match, else <<[start_str, end_str, next]>> with group(1), group(2) (<<>>
\* is None: the end was a marker word) and the token after the match.
\* group(1) is the last 2 to 4 digits of its run (the \b after it), group(2)
\* the first 2 to 4 digits of its run.
date_range_match(text, i) ==
    LET s == IF IsMonth(text, i) /\ HasYearDigits(text, i + 1) THEN i + 1 ELSE i
    IN  IF ~ HasYearDigits(text, s) THEN <<>>
        ELSE IF ~ (s + 1 <= Len(text) /\ IsWord(text[s + 1])
                     /\ text[s + 1].w \in {"-", "to"}) THEN <<>>
        ELSE LET ds == text[s].d
                 start_str == SubSeq(ds, Max(1, Len(ds) - 3), Len(ds))
                 e == IF IsMonth(text, s + 2) /\ HasYearDigits(text, s + 3)
                      THEN s + 3 ELSE s + 2
             IN  IF HasYearDigits(text, e)
                 THEN <<[start_str |-> start_str,
                         end_str   |-> <<SubSeq(text[e].d, 1, Min(4, Len(text[e].d)))>>,
                         next      |-> e + 1]>>
                 ELSE IF s + 2 <= Len(text) /\ IsWord(text[s + 2])
                            /\ text[s + 2].w \in EndMarkers
                 THEN <<[start_str |-> start_str, end_str |-> <<>>, next |-> s + 3]>>
                 ELSE <<>>

\* int(f"20{s}" if len(s) == 2 else s)
year_of(str) == int(IF Len(str) = 2 THEN <<2, 0>> \o str ELSE str)

RECURSIVE find_date_ranges_unchecked(_, _, _)
\* the loop appending every range it can read, without the test on the years
find_date_ranges_unchecked(text, i, current_year) ==
    IF i > Len(text) THEN <<>>
    ELSE LET m == date_range_match(text, i)
         IN  IF m = <<>> THEN find_date_ranges_unchecked(text, i + 1, current_year)
             ELSE LET rest == find_date_ranges_unchecked(text, m[1].next, current_year)
                  IN  IF m[1].end_str = <<>> THEN rest
                      ELSE <<(<<year_of(m[1].start_str), year_of(m[1].end_str[1])>>)>> \o rest

RECURSIVE find_date_ranges(_, _, _)
\* the re.finditer loop of _calculate_experience_from_dates: the valid
\* (start_year, end_year) pairs in text order.  With a marker word as the end,
\* group(2) is None, `None in [...]` is False and len(None) raises TypeError,
\* which the except clause turns into `continue`.
find_date_ranges(text, i, current_year) ==
    IF i > Len(text) THEN <<>>
    ELSE LET m == date_range_match(text, i)
         IN  IF m = <<>> THEN find_date_ranges(text, i + 1, current_year)
             ELSE LET rest == find_date_ranges(text, m[1].next, current_year)
                  IN  IF m[1].end_str = <<>> THEN rest
                      ELSE LET start_year == year_of(m[1].start_str)
                               end_year   == year_of(m[1].end_str[1])
                           IN  IF 1980 <= start_year /\ start_year < end_year
                                    /\ end_year <= current_year
                               THEN <<(<<start_year, end_year>>)>> \o rest
                               ELSE rest

\* tuple order of (start, end) pairs
PairLeq(a, b) == a[1] < b[1] \/ (a[1] = b[1] /\ a[2] <= b[2])

RECURSIVE sort_ranges(_)
\* date_ranges.sort()
sort_ranges(ranges) ==
    IF ranges = <<>> THEN <<>>
    ELSE LET least == CHOOSE i \in 1..Len(ranges) :
                        \A j \in 1..Len(ranges) : PairLeq(ranges[i], ranges[j])
         IN  <<ranges[least]>>
             \o sort_ranges([k \in 1..(Len(ranges) - 1) |->
                                IF k < least THEN ranges[k] ELSE ranges[k + 1]])

RECURSIVE merge_ranges(_, _)
\* the sweep of _calculate_experience_from_dates over the sorted ranges
merge_ranges(ranges, merged) ==
    IF ranges = <<>> THEN merged
    ELSE LET start == Head(ranges)[1]
             end   == Head(ranges)[2]
             n     == Len(merged)
         IN  IF merged = <<>> \/ merged[n][2] < start
             THEN merge_ranges(Tail(ranges), Append(merged, <<start, end>>))
             ELSE merge_ranges(Tail(ranges),
                               [merged EXCEPT ![n] = <<@[1], Max(@[2], end)>>])

\* _calculate_experience_from_dates adding up the sorted ranges as they are,
\* without the sweep
calculate_experience_from_dates_unmerged(text, current_year) ==
    LET date_ranges == sort_ranges(find_date_ranges(text, 1, current_year))
    IN  SumSeq([i \in 1..Len(date_ranges) |-> date_ranges[i][2] - date_ranges[i][1]])

\* _calculate_experience_from_dates
calculate_experience_from_dates(text, current_year) ==
    LET date_ranges == sort_ranges(find_date_ranges(text, 1, current_year))
    IN  IF date_ranges = <<>> THEN 0
        ELSE LET merged == merge_ranges(date_ranges, <<>>)
             IN  SumSeq([i \in 1..Len(merged) |-> merged[i][2] - merged[i][1]])

\* the explicit-years pattern at token i: a digit run, year(s), of,
\* optionally professional, experience
explicit_match(text, i) ==
    /\ i + 3 <= Len(text)
    /\ IsNum(text[i]) /\ Len(text[i].d) >= 1
    /\ text[i + 1] \in {W("years"), W("year")}
    /\ text[i + 2] = W("of")
    /\ \/ text[i + 3] = W("experience")
       \/ /\ i + 4 <= Len(text)
          /\ text[i + 3] = W("professional")
          /\ text[i + 4] = W("experience")

\* extract_years_experience adding the explicit years to the years of the
\* date ranges
extract_years_experience_sum(text) ==
    IF text = <<>> THEN 0
    ELSE LET text_lower == lower(text)
             hits == {i \in 1..Len(text_lower) : explicit_match(text_lower, i)}
             explicit_years ==
                IF hits = {} THEN 0
                ELSE LET i  == CHOOSE h \in hits : \A g \in hits : h <= g
                         ds == text_lower[i].d
                     IN  int(SubSeq(ds, Max(1, Len(ds) - 1), Len(ds)))
             date_range_years == calculate_experience_from_dates(text_lower, CurrentYear)
         IN  Min(explicit_years + date_range_years, 50)

\* extract_years_experience: re.search takes the first match, group(1) is
\* the last one or two digits of the run
extract_years_experience(text) ==
    IF text = <<>> THEN 0
    ELSE LET text_lower == lower(text)
             hits == {i \in 1..Len(text_lower) : explicit_match(text_lower, i)}
             explicit_years ==
                IF hits = {} THEN 0
                ELSE LET i  == CHOOSE h \in hits : \A g \in hits : h <= g
                         ds == text_lower[i].d
                     IN  int(SubSeq(ds, Max(1, Len(ds) - 1), Len(ds)))
             date_range_years == calculate_experience_from_dates(text_lower, CurrentYear)
         IN  Min(Max(explicit_years, date_range_years), 50)

\* \b(alt1|alt2|...)\b against the text: some token is one of the words
HasAny(text, words) == \E i \in 1..Len(text) : IsWord(text[i]) /\ text[i].w \in words

\* check_education_level
check_education_level(text) ==
    IF text = <<>> THEN <<>>
    ELSE LET t == lower(text)
         IN  [has_bachelors |-> HasAny(t, {"bs", "bs.", "b.s", "b.s.", "ba", "ba.", "b.a", "b.a.", "bachelor"}),
              has_masters   |-> HasAny(t, {"ms", "ms.", "m.s", "m.s.", "ma", "ma.", "m.a", "m.a.", "master", "mba"}),
              has_phd       |-> HasAny(t, {"phd", "ph.d", "doctorate", "doctoral"}),
              has_jd        |-> HasAny(t, {"jd", "j.d"}) \/ Contains(t, <<W("juris"), W("doctor")>>),
              has_llm       |-> HasAny(t, {"llm", "l.l.m", "ll.m", "l.lm"}),
              has_md        |-> HasAny(t, {"md", "m.d"}) \/ Contains(t, <<W("medical"), W("doctor")>>)]

\* EnhancedTextProcessor.university_tiers, each school a sequence of words
university_tiers ==
    [top_us_universities |->
        { <<"harvard">>, <<"stanford">>, <<"mit">>, <<"yale">>, <<"princeton">>,
          <<"columbia">>, <<"ucla">>, <<"berkeley">>, <<"uchicago">>,
          <<"university", "of", "chicago">>, <<"penn">>, <<"upenn">>,
          <<"university", "of", "pennsylvania">>, <<"northwestern">>,
          <<"johns", "hopkins">>, <<"duke">>, <<"cornell">>, <<"nyu">>,
          <<"new", "york", "university">> },
     m7_mba |->
        { <<"harvard", "business", "school">>,
          <<"stanford", "graduate", "school", "of", "business">>,
          <<"wharton">>, <<"kellogg">>, <<"booth">>,
          <<"columbia", "business", "school">>, <<"mit", "sloan">> }]

\* check_university_tier (clean_text lowercases; the modelled texts hold no
\* markup)
check_university_tier(text) ==
    IF text = <<>> THEN <<>>
    ELSE LET text_lower == lower(text)
         IN  [tier_name \in DOMAIN university_tiers |->
                \E school \in university_tiers[tier_name] :
                    Contains(text_lower, [i \in 1..Len(school) |-> W(school[i])])]

\* {**a, **b}: the keys of b win
Merge(a, b) == b @@ a

\* parse_candidate_comprehensive with the retrieved attributes laid over the
\* derived ones
parse_candidate_comprehensive_keeps_retrieved(candidate_data) ==
    LET ft == Get(candidate_data, "full_text", <<>>)
        full_text == IF ft # <<>> THEN ft ELSE Get(candidate_data, "rerank_summary", <<>>)
    IN  IF full_text = <<>>
        THEN Merge([years_experience |-> 0,
                    has_bachelors |-> FALSE, has_masters |-> FALSE, has_phd |-> FALSE,
                    has_jd |-> FALSE, has_llm |-> FALSE, has_md |-> FALSE],
                   candidate_data)
        ELSE Merge(Merge(Merge([years_experience |-> extract_years_experience(full_text)],
                               check_university_tier(full_text)),
                         check_education_level(full_text)),
                   candidate_data)

\* parse_candidate_comprehensive
parse_candidate_comprehensive(candidate_data) ==
    LET ft == Get(candidate_data, "full_text", <<>>)
        full_text == IF ft # <<>> THEN ft ELSE Get(candidate_data, "rerank_summary", <<>>)
    IN  IF full_text = <<>>
        THEN Merge(candidate_data,
                [years_experience |-> 0,
                 has_bachelors |-> FALSE, has_masters |-> FALSE, has_phd |-> FALSE,
                 has_jd |-> FALSE, has_llm |-> FALSE, has_md |-> FALSE])
        ELSE Merge(Merge(Merge(candidate_data, check_education_level(full_text)),
                         check_university_tier(full_text)),
                   [years_experience |-> extract_years_experience(full_text)])

-----------------------------------------------------------------------------
(* src/search_engine.py.  Similarities are in tenths, soft scores in halves, *)
(* final scores in hundredths; a job's "<factor>_keywords" lists are the     *)
(* entries of soft_criteria.keywords.                                        *)

\* the rows of vector_search: attributes, id, vector_similarity = 1.0 - dist,
\* and the rrf_score enhanced_hybrid_search copies from it
vector_row(row) ==
    LET res == Merge(row.attributes,
                     [id |-> row.id, vector_similarity |-> 10 - row.dist])
    IN  Merge(res, [rrf_score |-> Get(res, "vector_similarity", 0)])

\* generate_query_embedding: None when the client is missing or embed raised
generate_query_embedding(outcome) ==
    IF outcome = "no_embedding" THEN <<>> ELSE <<"query_vector">>

\* vector_search: the rows of ns.query, [] when it raised
vector_search(outcome, rows) ==
    IF outcome = "query_error" THEN <<>>
    ELSE [i \in 1..Len(rows) |-> vector_row(rows[i])]

\* enhanced_hybrid_search that goes on to vector_search without an embedding
enhanced_hybrid_search_unguarded(outcome, rows) ==
    [candidates |-> vector_search(outcome, rows), queried |-> TRUE]

\* enhanced_hybrid_search: the candidates it returns and whether it called
\* vector_search (ns.query)
enhanced_hybrid_search(outcome, rows) ==
    LET query_vector == generate_query_embedding(outcome)
    IN  IF query_vector = <<>>
        THEN [candidates |-> <<>>, queried |-> FALSE]
        ELSE [candidates |-> vector_search(outcome, rows), queried |-> TRUE]

\* (c.get('full_text', '') + ' ' + c.get('rerank_summary', '')).lower()
text_blob(c) == lower(Get(c, "full_text", <<>>) \o Get(c, "rerank_summary", <<>>))

RECURSIVE passes_education_all_of(_, _)
\* the loop over edu_reqs.items() with all(...) in place of any(...)
passes_education_all_of(c, edu_reqs) ==
    IF edu_reqs = <<>> THEN TRUE
    ELSE LET degree   == Head(edu_reqs)[1]
             required == Head(edu_reqs)[2]
         IN  IF degree = "any_of"
             THEN IF ~ (\A i \in 1..Len(required) : Get(c, required[i], FALSE))
                  THEN FALSE
                  ELSE passes_education_all_of(c, Tail(edu_reqs))
             ELSE IF required /\ ~ Get(c, degree, FALSE)
                  THEN FALSE
                  ELSE passes_education_all_of(c, Tail(edu_reqs))

RECURSIVE passes_education(_, _)
\* apply_hard_filters, the loop over edu_reqs.items() with its breaks
passes_education(c, edu_reqs) ==
    IF edu_reqs = <<>> THEN TRUE
    ELSE LET degree   == Head(edu_reqs)[1]
             required == Head(edu_reqs)[2]
         IN  IF degree = "any_of"
             THEN IF ~ (\E i \in 1..Len(required) : Get(c, required[i], FALSE))
                  THEN FALSE
                  ELSE passes_education(c, Tail(edu_reqs))
             ELSE IF required /\ ~ Get(c, degree, FALSE)
                  THEN FALSE
                  ELSE passes_education(c, Tail(edu_reqs))

\* passes_all without the test against min_years_experience
passes_all_min_skipped(c, hard_criteria) ==
    LET actual_years == Get(c, "years_experience", 0)
        experience ==
            ~ ("max_years_experience" \in DOMAIN hard_criteria
                    /\ actual_years > hard_criteria.max_years_experience)
        edu_reqs == Get(hard_criteria, "required_education", <<>>)
        education == edu_reqs = <<>> \/ passes_education(c, edu_reqs)
        required_keywords == Get(hard_criteria, "required_keywords", <<>>)
        keywords ==
            \/ required_keywords = <<>>
            \/ \A k \in 1..Len(required_keywords) :
                  Contains(text_blob(c), lower(required_keywords[k]))
    IN  experience /\ education /\ keywords

\* passes_all with the required keywords searched in full_text alone
passes_all_full_text_only(c, hard_criteria) ==
    LET actual_years == Get(c, "years_experience", 0)
        experience ==
            /\ ~ ("min_years_experience" \in DOMAIN hard_criteria
                    /\ actual_years < hard_criteria.min_years_experience)
            /\ ~ ("max_years_experience" \in DOMAIN hard_criteria
                    /\ actual_years > hard_criteria.max_years_experience)
        edu_reqs == Get(hard_criteria, "required_education", <<>>)
        education == edu_reqs = <<>> \/ passes_education(c, edu_reqs)
        required_keywords == Get(hard_criteria, "required_keywords", <<>>)
        keywords ==
            \/ required_keywords = <<>>
            \/ \A k \in 1..Len(required_keywords) :
                  Contains(lower(Get(c, "full_text", <<>>)), lower(required_keywords[k]))
    IN  experience /\ education /\ keywords

\* passes_all with a bound of 0 taken for a missing bound, as `if min_years`
\* in place of `if min_years is not None` would
passes_all_zero_unset(c, hard_criteria) ==
    LET actual_years == Get(c, "years_experience", 0)
        experience ==
            /\ ~ ("min_years_experience" \in DOMAIN hard_criteria
                    /\ hard_criteria.min_years_experience # 0
                    /\ actual_years < hard_criteria.min_years_experience)
            /\ ~ ("max_years_experience" \in DOMAIN hard_criteria
                    /\ hard_criteria.max_years_experience # 0
                    /\ actual_years > hard_criteria.max_years_experience)
        edu_reqs == Get(hard_criteria, "required_education", <<>>)
        education == edu_reqs = <<>> \/ passes_education(c, edu_reqs)
        required_keywords == Get(hard_criteria, "required_keywords", <<>>)
        keywords ==
            \/ required_keywords = <<>>
            \/ \A k \in 1..Len(required_keywords) :
                  Contains(text_blob(c), lower(required_keywords[k]))
    IN  experience /\ education /\ keywords

\* apply_hard_filters, the body of the loop for one candidate: passes_all
\* when the candidate is appended
passes_all(c, hard_criteria) ==
    LET actual_years == Get(c, "years_experience", 0)
        experience ==
            /\ ~ ("min_years_experience" \in DOMAIN hard_criteria
                    /\ actual_years < hard_criteria.min_years_experience)
            /\ ~ ("max_years_experience" \in DOMAIN hard_criteria
                    /\ actual_years > hard_criteria.max_years_experience)
        edu_reqs == Get(hard_criteria, "required_education", <<>>)
        education == edu_reqs = <<>> \/ passes_education(c, edu_reqs)
        required_keywords == Get(hard_criteria, "required_keywords", <<>>)
        keywords ==
            \/ required_keywords = <<>>
            \/ \A k \in 1..Len(required_keywords) :
                  Contains(text_blob(c), lower(required_keywords[k]))
    IN  experience /\ education /\ keywords

\* apply_hard_filters: the survivors, in order; no call to the filter logger
\* is made for a candidate that is dropped
apply_hard_filters(cands, hard_criteria) ==
    IF hard_criteria = <<>> THEN cands
    ELSE SelectSeq(cands, LAMBDA c : passes_all(c, hard_criteria))

RECURSIVE keyword_hits(_, _)
\* the number of keywords of the list found in the blob
keyword_hits(blob, kws) ==
    IF kws = <<>> THEN 0
    ELSE (IF Contains(blob, lower(Head(kws))) THEN 1 ELSE 0) + keyword_hits(blob, Tail(kws))

RECURSIVE weight_sum_per_keyword(_, _, _)
\* the loop over weight_factors adding the weight once per matching keyword
weight_sum_per_keyword(blob, factors, soft_criteria) ==
    IF factors = <<>> THEN 0
    ELSE LET factor == Head(factors)[1]
             weight == Head(factors)[2]
             kws    == Get(Get(soft_criteria, "keywords", <<>>), factor, <<>>)
         IN  keyword_hits(blob, kws) * weight
             + weight_sum_per_keyword(blob, Tail(factors), soft_criteria)

RECURSIVE weight_sum(_, _, _)
\* calculate_soft_score, the loop over weight_factors.items()
weight_sum(blob, factors, soft_criteria) ==
    IF factors = <<>> THEN 0
    ELSE LET factor == Head(factors)[1]
             weight == Head(factors)[2]
             kws    == Get(Get(soft_criteria, "keywords", <<>>), factor, <<>>)
             hit    == \E k \in 1..Len(kws) : Contains(blob, lower(kws[k]))
         IN  (IF hit THEN weight ELSE 0) + weight_sum(blob, Tail(factors), soft_criteria)

\* calculate_soft_score, in halves
calculate_soft_score(candidate, soft_criteria) ==
    IF soft_criteria = <<>> THEN 0
    ELSE LET blob == text_blob(candidate)
             pk   == Get(soft_criteria, "preferred_keywords", <<>>)
         IN  weight_sum(blob, Get(soft_criteria, "weight_factors", <<>>), soft_criteria)
             + (IF \E k \in 1..Len(pk) : Contains(blob, lower(pk[k])) THEN 2 ELSE 0)
             + (IF Get(candidate, "years_experience", 0)
                      >= Get(soft_criteria, "preferred_experience", 99)
                THEN 4 ELSE 0)

\* the blend with both weights at 0.5
final_score_even(c, soft_criteria) ==
    Get(c, "rrf_score", 0) * 5 + calculate_soft_score(c, soft_criteria) * 25

\* (initial_score * 0.4) + (soft_score * 0.6), in hundredths
final_score(c, soft_criteria) ==
    Get(c, "rrf_score", 0) * 4 + calculate_soft_score(c, soft_criteria) * 30

\* normalize_score measured down from the maximum
normalize_score_inverted(score, min_score, max_score) ==
    IF max_score = min_score THEN Fraction(1, 2)
    ELSE Fraction(max_score - score, max_score - min_score)

\* utils.normalize_score
normalize_score(score, min_score, max_score) ==
    IF max_score = min_score THEN Fraction(1, 2)
    ELSE Fraction(score - min_score, max_score - min_score)

\* a > b for fractions with positive denominators
FracGt(a, b) == a.num * b.den > b.num * a.den

RECURSIVE sort_by_normalized_reversed(_)
\* a descending sort that puts the later of two equal candidates first, as
\* sorting ascending and reversing the list would
sort_by_normalized_reversed(cands) ==
    IF cands = <<>> THEN <<>>
    ELSE LET first == CHOOSE i \in 1..Len(cands) :
                        /\ \A j \in 1..Len(cands) :
                              ~ FracGt(cands[j].normalized_score, cands[i].normalized_score)
                        /\ \A j \in (i + 1)..Len(cands) :
                              FracGt(cands[i].normalized_score, cands[j].normalized_score)
         IN  <<cands[first]>>
             \o sort_by_normalized_reversed([k \in 1..(Len(cands) - 1) |->
                                      IF k < first THEN cands[k] ELSE cands[k + 1]])

RECURSIVE sort_by_normalized(_)
\* list.sort(key=normalized_score, reverse=True): descending and stable
sort_by_normalized(cands) ==
    IF cands = <<>> THEN <<>>
    ELSE LET first == CHOOSE i \in 1..Len(cands) :
                        /\ \A j \in 1..Len(cands) :
                              ~ FracGt(cands[j].normalized_score, cands[i].normalized_score)
                        /\ \A j \in 1..(i - 1) :
                              FracGt(cands[i].normalized_score, cands[j].normalized_score)
         IN  <<cands[first]>>
             \o sort_by_normalized([k \in 1..(Len(cands) - 1) |->
                                      IF k < first THEN cands[k] ELSE cands[k + 1]])

\* rank with the scores normalized from 0 instead of from the lowest score
rank_from_zero(survivors, soft_criteria) ==
    LET scored == [i \in 1..Len(survivors) |->
                     Merge(survivors[i],
                           [final_score |-> final_score(survivors[i], soft_criteria)])]
        scores == {scored[i].final_score : i \in 1..Len(scored)}
        max_s  == CHOOSE x \in scores : \A y \in scores : x >= y
        normed == [i \in 1..Len(scored) |->
                     Merge(scored[i],
                           [normalized_score |->
                              normalize_score(scored[i].final_score, 0, max_s)])]
    IN  sort_by_normalized(normed)

\* search, from the scoring loop to result_ids: the ranked survivors
rank(survivors, soft_criteria) ==
    LET scored == [i \in 1..Len(survivors) |->
                     Merge(survivors[i],
                           [final_score |-> final_score(survivors[i], soft_criteria)])]
        scores == {scored[i].final_score : i \in 1..Len(scored)}
        min_s  == CHOOSE x \in scores : \A y \in scores : x <= y
        max_s  == CHOOSE x \in scores : \A y \in scores : x >= y
        normed == [i \in 1..Len(scored) |->
                     Merge(scored[i],
                           [normalized_score |->
                              normalize_score(scored[i].final_score, min_s, max_s)])]
    IN  sort_by_normalized(normed)

\* result_ids with the slice taken one place too far
result_ids_one_more(ranked, top_k) ==
    [i \in 1..Min(top_k + 1, Len(ranked)) |-> ranked[i].id]

\* [c['id'] for c in filtered_candidates[:top_k]]; a negative top_k counts
\* from the end of the list
result_ids(ranked, top_k) ==
    LET stop == IF top_k >= 0 THEN Min(top_k, Len(ranked))
                ELSE Max(Len(ranked) + top_k, 0)
    IN  [i \in 1..stop |-> ranked[i].id]

-----------------------------------------------------------------------------
(* Inputs of the logger's callers *)

JobNames == {"Tax Lawyer", "Biology Expert"}
Queries == {"tax attorney"}
Totals == {0, 50, 100}
Survivors == {30, 40}

\* the log_filter_failure calls a caller makes: (candidate dict, filter_type,
\* filter_name); the second candidate has neither 'id' nor 'name'
LoggedFailures ==
    { <<[id |-> "c1", name |-> "Ann"], (<<"hard">>), (<<"experience">>)>>,
      <<[years_experience |-> 2], (<<"hard">>), (<<"experience", ".", "min">>)>>,
      <<[id |-> "c1", name |-> "Ann"], (<<"hard", ".", "experience">>), (<<"min">>)>> }

\* the failures the log holds, closed and open
HeldFailures ==
    Len(FlatFailures(all_sessions)) + Len(FlatFailures(current_session))

-----------------------------------------------------------------------------
(* Inputs of the searches *)

\* the searches the engine runs
Procs == 1..MaxSearches

\* the rows of the retriever's namespace: id, cosine distance in tenths and
\* the stored attributes
Namespace ==
    { [id |-> "c1", dist |-> 1, attributes |->
          [name |-> "Ann",
           full_text |-> <<W("JD"), D(<<5>>), W("years"), W("of"), W("experience"),
                           W("Tax"), W("law")>>]],
      [id |-> "c2", dist |-> 5, attributes |->
          [name |-> "Bob", years_experience |-> 9,
           full_text |-> <<W("LLM"), D(<<2, 0, 1, 9>>), W("-"), D(<<2, 0, 2, 1>>),
                           W("IRS"), W("audit")>>]],
      [id |-> "c4", dist |-> 5, attributes |->
          [rerank_summary |-> <<W("Bachelor"), D(<<2, 0, 1, 0>>), W("-"),
                                D(<<2, 0, 1, 5>>), W("tax")>>]] }

\* what ns.query can return: distinct rows, nearest first
Retrievals ==
    { rows \in UNION {[1..n -> Namespace] : n \in 0..MaxRetrieved} :
        /\ \A i, j \in 1..Len(rows) : i # j => rows[i].id # rows[j].id
        /\ \A i \in 1..(Len(rows) - 1) : rows[i].dist <= rows[i + 1].dist }

\* job configurations in the shape of query_configs.py
JobConfigs ==
    { [name |-> "Tax Lawyer",
       hard_criteria |->
          [required_education |-> << <<"any_of", <<"has_jd", "has_llm">> >> >>,
           min_years_experience |-> 3],
       soft_criteria |->
          [preferred_experience |-> 5,
           weight_factors |-> << <<"irs_experience", 6>>, <<"corporate_tax_experience", 5>> >>,
           keywords |->
              [irs_experience |-> << <<W("irs"), W("audit")>>, <<W("tax"), W("dispute")>> >>,
               corporate_tax_experience |-> << <<W("corporate"), W("tax")>>, <<W("Tax")>> >>]]],
      [name |-> "Biology Expert",
       hard_criteria |->
          [required_education |-> << <<"has_bachelors", TRUE>> >>,
           min_years_experience |-> 0,
           max_years_experience |-> 5,
           required_keywords |-> << <<W("Tax")>> >>],
       soft_criteria |-> <<>>],
      [soft_criteria |-> [preferred_keywords |-> << <<W("audit")>> >>]] }

SearchQueries == {"tax attorney"}
TopKs == {1, 2}

\* how enhanced_hybrid_search went: no embedding (client missing or embed
\* raised), ns.query raised, or rows came back
RetrievalOutcomes == {"no_embedding", "query_error", "rows"}

-----------------------------------------------------------------------------
(* The logger driven call by call *)

InitLog ==
    /\ current_session = <<>>
    /\ all_sessions = <<>>
    /\ log_file = [state |-> "absent", data |-> <<>>]
    /\ last_op = Call("init", 0, "none", FALSE)

InitSearch ==
    /\ pc = [p \in Procs |-> "idle"]
    /\ args = [p \in Procs |-> <<>>]
    /\ processed = [p \in Procs |-> <<>>]
    /\ filtered = [p \in Procs |-> <<>>]
    /\ result = [p \in Procs |-> <<>>]
    /\ mark = [p \in Procs |-> 0]
    /\ retrieval = [p \in Procs |-> <<>>]
    /\ overlapped = FALSE
    /\ ended = <<>>

Init == InitLog /\ InitSearch

StartSession ==
    /\ Len(all_sessions) < MaxSessions
    /\ \E job \in JobNames, query \in Queries, total \in Totals :
          start_session(job, query, total)
    /\ UNCHANGED searchvars

LogFilterFailure ==
    /\ Len(all_sessions) < MaxSessions
    /\ HeldFailures < MaxFailures
    /\ \E call \in LoggedFailures :
          log_filter_failure(call[1], call[2], call[3], "below minimum", 3, 2)
    /\ UNCHANGED searchvars

EndSession ==
    /\ Len(all_sessions) < MaxSessions
    /\ \E n \in Survivors, io \in IoOutcomes : end_session(n, io)
    /\ UNCHANGED searchvars

Next == StartSession \/ LogFilterFailure \/ EndSession

Spec == Init /\ [][Next]_vars

-----------------------------------------------------------------------------
(* The logger with the durable copy it finds on disk and reloads *)

\* a closed session as an earlier run left it in the file
StoredSession(job, total, passed) ==
    asdict([FilterSession(job, "tax attorney", total) EXCEPT
               !.candidates_after_filtering = passed])

\* the files a logger can find at log_file: none, a truncated document, a
\* document without 'sessions', well-formed documents, and documents whose
\* second session lacks a field or carries a failure with a field missing
FoundFiles ==
    { [state |-> "absent", data |-> <<>>],
      [state |-> "partial", data |-> <<>>],
      [state |-> "written", data |-> <<[log_version |-> "1.0"]>>],
      [state |-> "written",
       data  |-> <<log_data(<<StoredSession("Tax Lawyer", 100, 40)>>)>>],
      [state |-> "written",
       data  |-> <<log_data(<<StoredSession("Tax Lawyer", 100, 40),
                              StoredSession("Biology Expert", 50, 30)>>)>>],
      [state |-> "written",
       data  |-> <<[log_version |-> "1.0",
                    sessions |-> <<StoredSession("Tax Lawyer", 100, 40),
                                   [job_config_name |-> "Biology Expert",
                                    total_candidates |-> 50,
                                    candidates_after_filtering |-> 30,
                                    filter_failures |-> <<>>]>>]>>],
      [state |-> "written",
       data  |-> <<[log_version |-> "1.0",
                    sessions |-> <<StoredSession("Tax Lawyer", 100, 40),
                                   [StoredSession("Biology Expert", 50, 30) EXCEPT
                                       !.filter_failures =
                                          <<[candidate_id |-> "c1",
                                             filter_type |-> <<"hard">>]>>]>>]>>] }

InitLoad ==
    /\ current_session = <<>>
    /\ all_sessions = <<>>
    /\ log_file \in FoundFiles
    /\ last_op = Call("init", 0, "none", FALSE)
    /\ InitSearch

\* the engine loads once, right after it constructs its logger
\* (search_engine.py, lines 27-28)
LoadFromFile ==
    /\ last_op.op = "init"
    /\ \E io \in ReadOutcomes : load_from_file(log_file, io)
    /\ UNCHANGED searchvars

LoadNext == StartSession \/ LogFilterFailure \/ EndSession \/ LoadFromFile

LoadSpec == InitLoad /\ [][LoadNext]_vars

-----------------------------------------------------------------------------
(* CandidateSearchEngine.search, one step per call into the filter logger *)

\* search, lines 202-212: retrieval and enrichment, for a call whose job
\* configuration, retrieved rows and top_k come from the given sets
SearchCallFrom(p, configs, retrievals, top_ks) ==
    /\ pc[p] = "idle"
    /\ \E query \in SearchQueries, job_config \in configs, top_k \in top_ks,
          outcome \in RetrievalOutcomes, rows \in retrievals :
          LET found == enhanced_hybrid_search(outcome, rows)
              candidates_raw == found.candidates
          IN  /\ outcome # "rows" => rows = <<>>
              /\ retrieval' = [retrieval EXCEPT ![p] =
                                 <<[outcome |-> outcome, queried |-> found.queried]>>]
              /\ args' = [args EXCEPT ![p] =
                            <<[query |-> query, job_config |-> job_config, top_k |-> top_k]>>]
              /\ mark' = [mark EXCEPT ![p] = Len(all_sessions)]
              /\ IF candidates_raw = <<>>
                 THEN /\ pc' = [pc EXCEPT ![p] = "returned"]
                      /\ UNCHANGED processed
                 ELSE /\ pc' = [pc EXCEPT ![p] = "start"]
                      /\ processed' = [processed EXCEPT ![p] =
                            [i \in 1..Len(candidates_raw) |->
                                parse_candidate_comprehensive(candidates_raw[i])]]
    /\ UNCHANGED <<logvars, filtered, result, overlapped, ended>>

\* search, lines 202-212
SearchCall(p) == SearchCallFrom(p, JobConfigs, Retrievals, TopKs)

\* search, line 214
SearchStart(p) ==
    /\ pc[p] = "start"
    /\ start_session(Get(args[p][1].job_config, "name", "N/A"), args[p][1].query,
                     Len(processed[p]))
    /\ overlapped' = (overlapped \/ \E q \in Procs \ {p} : pc[q] \in {"filter", "end"})
    /\ pc' = [pc EXCEPT ![p] = "filter"]
    /\ UNCHANGED <<args, processed, filtered, result, mark, retrieval, ended>>

\* search, line 215
SearchFilter(p) ==
    /\ pc[p] = "filter"
    /\ filtered' = [filtered EXCEPT ![p] =
          apply_hard_filters(processed[p], Get(args[p][1].job_config, "hard_criteria", <<>>))]
    /\ pc' = [pc EXCEPT ![p] = "end"]
    /\ UNCHANGED <<logvars, args, processed, result, mark, retrieval, overlapped, ended>>

\* search, line 216
SearchEnd(p) ==
    /\ pc[p] = "end"
    /\ \E io \in IoOutcomes : end_session(Len(filtered[p]), io)
    /\ ended' = Append(ended, p)
    /\ pc' = [pc EXCEPT ![p] = "rank"]
    /\ UNCHANGED <<args, processed, filtered, result, mark, retrieval, overlapped>>

\* search, lines 218-241: the survivors are scored and sorted in place
SearchReturn(p) ==
    /\ pc[p] = "rank"
    /\ IF filtered[p] = <<>>
       THEN /\ result' = [result EXCEPT ![p] = <<>>]
            /\ UNCHANGED filtered
       ELSE LET ranked == rank(filtered[p],
                               Get(args[p][1].job_config, "soft_criteria", <<>>))
            IN  /\ filtered' = [filtered EXCEPT ![p] = ranked]
                /\ result' = [result EXCEPT ![p] = result_ids(ranked, args[p][1].top_k)]
    /\ pc' = [pc EXCEPT ![p] = "returned"]
    /\ UNCHANGED <<logvars, args, processed, mark, retrieval, overlapped, ended>>

\* searches that share the engine's logger and may interleave
ConcurrentNext ==
    \/ \E p \in Procs : SearchCall(p)
    \/ \E p \in Procs : SearchStart(p)
    \/ \E p \in Procs : SearchFilter(p)
    \/ \E p \in Procs : SearchEnd(p)
    \/ \E p \in Procs : SearchReturn(p)

ConcurrentSpec == Init /\ [][ConcurrentNext]_vars

\* the pipeline as the engine runs it: one search at a time
Alone(p) == \A q \in Procs \ {p} : pc[q] \in {"idle", "returned"}

SerialNext ==
    \/ \E p \in Procs : Alone(p) /\ SearchCall(p)
    \/ \E p \in Procs : Alone(p) /\ SearchStart(p)
    \/ \E p \in Procs : Alone(p) /\ SearchFilter(p)
    \/ \E p \in Procs : Alone(p) /\ SearchEnd(p)
    \/ \E p \in Procs : Alone(p) /\ SearchReturn(p)

SearchSpec == Init /\ [][SerialNext]_vars

-----------------------------------------------------------------------------
(* One search over a pool whose candidates tie and differ in score *)

MaxRanked == 3        \* candidates the retrieval of the ranked search returns

\* the pool: similarities 0.9, 0.5, 0.5 and 0.2; c4 names an auditing
\* keyword twice, c3 names an auditing and a corporate keyword
RankedNamespace ==
    { [id |-> "c1", dist |-> 1, attributes |->
          [name |-> "Ann", full_text |-> <<W("JD"), W("Tax"), W("law")>>]],
      [id |-> "c2", dist |-> 5, attributes |->
          [name |-> "Bob", full_text |-> <<W("LLM"), W("estate"), W("planning")>>]],
      [id |-> "c4", dist |-> 5, attributes |->
          [name |-> "Dee",
           full_text |-> <<W("JD"), W("IRS"), W("audit"), W("and"), W("IRS"), W("appeals")>>,
           rerank_summary |-> <<D(<<6>>), W("years"), W("of"), W("experience")>>]],
      [id |-> "c3", dist |-> 8, attributes |->
          [name |-> "Cal",
           full_text |-> <<W("JD"), D(<<2, 0, 1, 5>>), W("-"), D(<<2, 0, 2, 0>>)>>,
           rerank_summary |-> <<W("IRS"), W("audit"), W("corporate"), W("Tax")>>]] }

\* what ns.query can return from the pool: distinct rows, nearest first
RankedRetrievals ==
    { rows \in UNION {[1..n -> RankedNamespace] : n \in 0..MaxRanked} :
        /\ \A i, j \in 1..Len(rows) : i # j => rows[i].id # rows[j].id
        /\ \A i \in 1..(Len(rows) - 1) : rows[i].dist <= rows[i + 1].dist }

\* weight_factors {"a": 3.0, "b": 2.0} with their keyword lists; the same
\* with a reachable preferred_experience and global keywords; factor b
\* alone; no soft criteria at all
RankedConfigs ==
    { [name |-> "Tax Lawyer",
       hard_criteria |-> [required_education |-> << <<"any_of", <<"has_jd", "has_llm">> >> >>],
       soft_criteria |->
          [weight_factors |-> << <<"a", 6>>, <<"b", 4>> >>,
           keywords |->
              [a |-> << <<W("IRS"), W("audit")>>, <<W("irs")>> >>,
               b |-> << <<W("corporate"), W("tax")>> >>]]],
      [name |-> "Tax Lawyer",
       hard_criteria |-> <<>>,
       soft_criteria |->
          [preferred_experience |-> 5,
           preferred_keywords |-> << <<W("Tax")>>, <<W("law")>> >>,
           weight_factors |-> << <<"a", 6>>, <<"b", 4>> >>,
           keywords |-> [a |-> << <<W("appeals")>> >>]]],
      [name |-> "Tax Lawyer",
       hard_criteria |-> <<>>,
       soft_criteria |->
          [weight_factors |-> << <<"b", 4>> >>,
           keywords |-> [b |-> << <<W("corporate"), W("tax")>> >>]]],
      [name |-> "Tax Lawyer", hard_criteria |-> <<>>, soft_criteria |-> <<>>] }

RankedTopKs == 0..MaxRanked

RankedNext ==
    \/ SearchCallFrom(1, RankedConfigs, RankedRetrievals, RankedTopKs)
    \/ SearchStart(1)
    \/ SearchFilter(1)
    \/ SearchEnd(1)
    \/ SearchReturn(1)

RankedSpec == Init /\ [][RankedNext]_vars

-----------------------------------------------------------------------------
(* apply_hard_filters called on candidates and criteria of every shape *)

\* a dict entry that may be missing: none for <<>>, key: v for <<v>>
Entry(key, v) == IF v = <<>> THEN <<>> ELSE (key :> v[1])

\* candidate dicts: years_experience missing, 0, 3 or 6; the degree flags
\* missing, or set by enrichment; text in full_text, in both fields, or none
FilterCandidates ==
    { Entry("years_experience", years) @@ flags @@ text :
        years \in {<<>>, <<0>>, <<3>>, <<6>>},
        flags \in { <<>>,
                    [has_jd |-> FALSE, has_llm |-> TRUE, has_bachelors |-> FALSE],
                    [has_jd |-> TRUE, has_llm |-> FALSE, has_bachelors |-> TRUE],
                    [has_jd |-> FALSE, has_llm |-> FALSE, has_bachelors |-> TRUE] },
        text \in { <<>>,
                   [full_text |-> <<W("Tax"), W("law")>>],
                   [full_text |-> <<W("estate"), W("law")>>,
                    rerank_summary |-> <<W("IRS"), W("audit"), W("tax")>>] } }

\* the candidate lists given to apply_hard_filters: every single candidate,
\* and the pairs of four of them
FilterInputs ==
    { <<c>> : c \in FilterCandidates }
    \cup { <<a, b>> : a, b \in { c \in FilterCandidates :
                                    /\ "full_text" \in DOMAIN c
                                    /\ "rerank_summary" \notin DOMAIN c
                                    /\ "years_experience" \in DOMAIN c
                                    /\ c.years_experience \in {0, 3}
                                    /\ "has_jd" \in DOMAIN c
                                    /\ c.has_bachelors } }

\* hard criteria: each bound missing, 0 or 3; required_education missing,
\* any_of, a direct flag, both, or a flag set to false; required_keywords
\* missing, one keyword or two
FilterCriteria ==
    { Entry("min_years_experience", min_years)
        @@ Entry("max_years_experience", max_years)
        @@ Entry("required_education", edu_reqs)
        @@ Entry("required_keywords", required_keywords) :
        min_years \in {<<>>, <<0>>, <<3>>},
        max_years \in {<<>>, <<0>>, <<3>>},
        edu_reqs \in { <<>>,
                       << << <<"any_of", <<"has_jd", "has_llm">> >> >> >>,
                       << << <<"has_bachelors", TRUE>> >> >>,
                       << << <<"any_of", <<"has_jd", "has_llm">> >>,
                             <<"has_bachelors", TRUE>> >> >>,
                       << << <<"has_bachelors", FALSE>> >> >> },
        required_keywords \in { <<>>,
                                << << <<W("Tax")>> >> >>,
                                << << <<W("tax")>>, <<W("Audit")>> >> >> } }

\* the filter about to run on the candidates under the criteria
InitFilter ==
    /\ InitLog
    /\ \E cands \in FilterInputs, hard_criteria \in FilterCriteria :
          /\ pc = [p \in Procs |-> IF p = 1 THEN "filter" ELSE "idle"]
          /\ args = [p \in Procs |->
                        IF p = 1
                        THEN <<[query |-> "tax attorney",
                                job_config |-> [hard_criteria |-> hard_criteria],
                                top_k |-> 1]>>
                        ELSE <<>>]
          /\ processed = [p \in Procs |-> IF p = 1 THEN cands ELSE <<>>]
    /\ filtered = [p \in Procs |-> <<>>]
    /\ result = [p \in Procs |-> <<>>]
    /\ mark = [p \in Procs |-> 0]
    /\ retrieval = [p \in Procs |-> <<>>]
    /\ overlapped = FALSE
    /\ ended = <<>>

FilterNext == SearchFilter(1)

FilterSpec == InitFilter /\ [][FilterNext]_vars

-----------------------------------------------------------------------------
(* Properties of the search and of the filter session log *)

\* the job configuration and hard criteria of search p
JobOf(p) == args[p][1].job_config
HardOf(p) == Get(JobOf(p), "hard_criteria", <<>>)

\* the processed candidates of search p that are not among its survivors
Rejected(p) ==
    SelectSeq(processed[p],
              LAMBDA c : \A i \in 1..Len(filtered[p]) : filtered[p][i].id # c.id)

\* a candidate meets the experience bounds that are configured
MeetsExperience(c, hc) ==
    /\ "min_years_experience" \in DOMAIN hc => c.years_experience >= hc.min_years_experience
    /\ "max_years_experience" \in DOMAIN hc => c.years_experience <= hc.max_years_experience

\* a candidate meets every entry of required_education
MeetsEducation(c, hc) ==
    "required_education" \in DOMAIN hc =>
        \A e \in 1..Len(hc.required_education) :
            LET entry == hc.required_education[e]
            IN  IF entry[1] = "any_of"
                THEN \E f \in 1..Len(entry[2]) :
                        entry[2][f] \in DOMAIN c /\ c[entry[2][f]]
                ELSE entry[2] => (entry[1] \in DOMAIN c /\ c[entry[1]])

\* every required keyword occurs in the candidate's text
MeetsKeywords(c, hc) ==
    "required_keywords" \in DOMAIN hc =>
        \A k \in 1..Len(hc.required_keywords) :
            Contains(text_blob(c), lower(hc.required_keywords[k]))

MeetsHardCriteria(c, hc) ==
    MeetsExperience(c, hc) /\ MeetsEducation(c, hc) /\ MeetsKeywords(c, hc)

\* the category at which the hard filter stops for a rejected candidate
RejectionCategory(c, hc) ==
    IF ~ MeetsExperience(c, hc) THEN "experience"
    ELSE IF ~ MeetsEducation(c, hc) THEN "education"
    ELSE "keywords"

\* C1: once the hard filter of a search has run and its session is still
\* open, the session holds exactly one failure per rejected candidate, in
\* order, of type "hard", named by the category of the rejection, and for a
\* candidate below min_years_experience with the minimum as expected value and
\* the candidate's years as actual value.
C1_OneFailurePerRejection ==
    \A p \in Procs :
        (pc[p] = "end" /\ current_session # <<>>) =>
            LET failures == current_session[1].filter_failures
                rej      == Rejected(p)
            IN  /\ Len(failures) = Len(rej)
                /\ \A i \in 1..Len(failures) :
                      /\ failures[i].candidate_id = rej[i].id
                      /\ failures[i].filter_type = <<"hard">>
                      /\ failures[i].filter_name = <<RejectionCategory(rej[i], HardOf(p))>>
                      /\ ("min_years_experience" \in DOMAIN HardOf(p)
                            /\ rej[i].years_experience < HardOf(p).min_years_experience)
                         => /\ failures[i].expected_value = HardOf(p).min_years_experience
                            /\ failures[i].actual_value = rej[i].years_experience

\* C2: every returned id is the id of a retrieved candidate that meets all
\* configured hard criteria.
C2_ReturnedMeetHardCriteria ==
    \A p \in Procs :
        pc[p] = "returned" =>
            \A i \in 1..Len(result[p]) :
                \E j \in 1..Len(processed[p]) :
                    /\ processed[p][j].id = result[p][i]
                    /\ MeetsHardCriteria(processed[p][j], HardOf(p))

\* a search returned ids while one of its retrieved candidates fails a hard
\* criterion
C2_Witness ==
    \E p \in Procs :
        /\ pc[p] = "returned"
        /\ result[p] # <<>>
        /\ \E j \in 1..Len(processed[p]) :
              ~ MeetsHardCriteria(processed[p][j], HardOf(p))

\* the searches that retrieved at least one candidate and have called
\* end_session
Logged == {p \in Procs : pc[p] \in {"rank", "returned"} /\ processed[p] # <<>>}

\* C3: every search that retrieved n >= 1 candidates has appended exactly one
\* session, with total_candidates = n and candidates_after_filtering = its
\* number of survivors (at most n); when all candidates fail the session
\* records 0 and the search returns the empty list; a search that retrieved
\* nothing appends none; and no session is open once the search has returned.
C3_OneSessionPerSearch ==
    /\ Len(all_sessions) = Cardinality(Logged)
    /\ \A p \in Logged :
          LET session == all_sessions[mark[p] + 1]
          IN  /\ session.total_candidates = Len(processed[p])
              /\ session.candidates_after_filtering = Len(filtered[p])
              /\ session.candidates_after_filtering <= session.total_candidates
              /\ session.job_config_name = Get(JobOf(p), "name", "N/A")
              /\ (pc[p] = "returned" /\ \A j \in 1..Len(processed[p]) :
                        ~ MeetsHardCriteria(processed[p][j], HardOf(p)))
                 => (session.candidates_after_filtering = 0 /\ result[p] = <<>>)
    /\ (\A p \in Procs : pc[p] \in {"idle", "returned"}) => current_session = <<>>

\* a search whose candidates all failed the hard filter has returned, after
\* an earlier search with survivors
C3_Witness ==
    \E p \in Procs :
        /\ pc[p] = "returned"
        /\ processed[p] # <<>>
        /\ filtered[p] = <<>>
        /\ mark[p] = 1
        /\ all_sessions[1].candidates_after_filtering >= 1
        /\ Len(all_sessions) = 2

\* the call just made was end_session on an open session
EndedOpen == last_op'.op = "end" /\ current_session # <<>>

\* the session end_session closes: the open one with the survivor count set
Closing == [current_session[1] EXCEPT !.candidates_after_filtering = last_op'.n]

\* a persisted session carries the fields of a session
SameSession(dict, session) ==
    /\ dict.job_config_name = session.job_config_name
    /\ dict.query = session.query
    /\ dict.total_candidates = session.total_candidates
    /\ dict.candidates_after_filtering = session.candidates_after_filtering
    /\ Len(dict.filter_failures) = Len(session.filter_failures)
    /\ \A i \in 1..Len(dict.filter_failures) :
          /\ dict.filter_failures[i].candidate_id = session.filter_failures[i].candidate_id
          /\ dict.filter_failures[i].filter_type = session.filter_failures[i].filter_type
          /\ dict.filter_failures[i].filter_name = session.filter_failures[i].filter_name
          /\ dict.filter_failures[i].expected_value = session.filter_failures[i].expected_value
          /\ dict.filter_failures[i].actual_value = session.filter_failures[i].actual_value

Figures(stats) ==
    IF stats = <<>> THEN <<0, 0, 0>>
    ELSE <<stats[1].overall_stats.total_candidates_processed,
           stats[1].overall_stats.total_candidates_passed,
           stats[1].overall_stats.total_filter_failures>>

\* C5: get_stats aggregates closed sessions only: a start or a log_failure
\* changes no figure it returns, whatever the open session holds, and the
\* session's total and failures enter the figures at its end.
C5_StatsOverClosedOnly ==
    [][ /\ last_op'.op \in {"start", "log"} => get_filter_stats' = get_filter_stats
        /\ EndedOpen =>
              /\ Figures(get_filter_stats')[1]
                    = Figures(get_filter_stats)[1] + current_session[1].total_candidates
              /\ Figures(get_filter_stats')[3]
                    = Figures(get_filter_stats)[3] + Len(current_session[1].filter_failures)
      ]_vars

\* a session with a total and a failure is open beside a closed one
C5_Witness ==
    /\ current_session # <<>>
    /\ current_session[1].total_candidates > 0
    /\ current_session[1].filter_failures # <<>>
    /\ all_sessions # <<>>
    /\ last_op.op = "log"

\* C6: under start, log_failure and end calls the closed collection is
\* append-only and its sessions immutable: every session in it keeps its
\* position and all its fields, and it changes only by gaining one element
\* at the end, on each end of an open session.
C6_ClosedAppendOnly ==
    [][ last_op'.op \in {"start", "log", "end"} =>
          /\ Len(all_sessions') >= Len(all_sessions)
          /\ SubSeq(all_sessions', 1, Len(all_sessions)) = all_sessions
          /\ Len(all_sessions') = Len(all_sessions) + (IF EndedOpen THEN 1 ELSE 0)
      ]_vars

\* a failure was logged with no session open while a closed session with a
\* failure exists
C6_Witness ==
    /\ last_op.op = "log"
    /\ current_session = <<>>
    /\ all_sessions # <<>>
    /\ all_sessions[Len(all_sessions)].filter_failures # <<>>

\* C10: when the write of the durable copy fails during end, end still
\* completes without raising: the ended session is the last of the in-memory
\* closed collection, no session remains open, and get_stats includes it.
C10_EndSurvivesWriteFailure ==
    [][ (EndedOpen /\ last_op'.io \in {"open_error", "write_error"}) =>
          /\ ~ last_op'.raised
          /\ all_sessions' = Append(all_sessions, Closing)
          /\ current_session' = <<>>
          /\ get_filter_stats' # <<>>
          /\ Figures(get_filter_stats')[1]
                = Figures(get_filter_stats)[1] + current_session[1].total_candidates
          /\ Figures(get_filter_stats')[2] = Figures(get_filter_stats)[2] + last_op'.n
      ]_vars

\* a session was ended while the write failed and the durable copy lacks it
C10_Witness ==
    /\ last_op.op = "end"
    /\ last_op.io \in {"open_error", "write_error"}
    /\ all_sessions # <<>>
    /\ current_session = <<>>
    /\ log_file.state # "written"
    /\ get_filter_stats # <<>>

\* C7: two searches share one log; in every execution in which their
\* start...end sections are mutually exclusive, each search that started a
\* session has exactly one closed session, carrying its own job name, query,
\* total and survivor count, and the closed sessions are in the order in
\* which the searches ended.
C7_SerializedAttribution ==
    ~ overlapped =>
        /\ Len(all_sessions) = Len(ended)
        /\ \A p \in Logged : Cardinality({i \in 1..Len(ended) : ended[i] = p}) = 1
        /\ \A i \in 1..Len(ended) :
              LET p == ended[i]
              IN  /\ all_sessions[i].job_config_name = Get(JobOf(p), "name", "N/A")
                  /\ all_sessions[i].query = args[p][1].query
                  /\ all_sessions[i].total_candidates = Len(processed[p])
                  /\ all_sessions[i].candidates_after_filtering = Len(filtered[p])

\* two searches with different jobs and survivor counts ran one section
\* after the other and ended in the order 2, 1
C7_Witness ==
    /\ ~ overlapped
    /\ ended = <<2, 1>>
    /\ pc[1] = "returned" /\ pc[2] = "returned"
    /\ Get(JobOf(1), "name", "N/A") # Get(JobOf(2), "name", "N/A")
    /\ Len(filtered[1]) # Len(filtered[2])
    /\ Len(all_sessions) = 2

RECURSIVE SumTo(_, _)
\* f[1] + ... + f[n]
SumTo(f, n) == IF n = 0 THEN 0 ELSE SumTo(f, n - 1) + f[n]

ClosedTotals == [i \in 1..Len(all_sessions) |-> all_sessions[i].total_candidates]
ClosedPassed == [i \in 1..Len(all_sessions) |-> all_sessions[i].candidates_after_filtering]
ClosedFailures == [i \in 1..Len(all_sessions) |-> Len(all_sessions[i].filter_failures)]

\* the fraction r is the number a / b
IsRatio(r, a, b) == r.den # 0 /\ r.num * b = a * r.den

\* C8: for a non-empty closed collection get_stats reports processed = the
\* sum of total_candidates, passed = the sum of candidates_after_filtering,
\* failures = the sum of the failure-list lengths and overall filter rate =
\* (processed - passed) / processed, 0 when processed is 0; sessions
\* (100, 40) and (50, 30) give (150 - 70) / 150.
C8_OverallStats ==
    all_sessions # <<>> =>
        LET total     == SumTo(ClosedTotals, Len(all_sessions))
            passed    == SumTo(ClosedPassed, Len(all_sessions))
            overall   == get_filter_stats[1].overall_stats
        IN  /\ get_filter_stats # <<>>
            /\ overall.total_candidates_processed = total
            /\ overall.total_candidates_passed = passed
            /\ overall.total_filter_failures = SumTo(ClosedFailures, Len(all_sessions))
            /\ IF total = 0
               THEN overall.overall_filter_rate.num = 0
                    /\ overall.overall_filter_rate.den # 0
               ELSE IsRatio(overall.overall_filter_rate, total - passed, total)
            /\ (ClosedTotals = <<100, 50>> /\ ClosedPassed = <<40, 30>>)
               => IsRatio(overall.overall_filter_rate, 80, 150)

\* the closed sessions are (100, 40) and (50, 30)
C8_Witness ==
    /\ Len(all_sessions) = 2
    /\ ClosedTotals = <<100, 50>>
    /\ ClosedPassed = <<40, 30>>

\* the failures of the closed sessions
ClosedFailureList == FlatFailures(all_sessions)

\* the key "<filter_type>.<filter_name>" of a failure
KeyOf(f) == f.filter_type \o <<".">> \o f.filter_name

RECURSIVE SumOver(_, _)
\* the sum of f over the keys in S
SumOver(f, S) ==
    IF S = {} THEN 0
    ELSE LET k == CHOOSE x \in S : TRUE
         IN  f[k] + SumOver(f, S \ {k})

\* the per-job entries of get_stats are the sums over exactly the closed
\* sessions of that job name, with filter_rate = (total - filtered) / total,
\* 0 when total is 0, and they add up to the overall figures
JobEntriesRight(stats) ==
    LET perf  == stats.job_performance
        names == {all_sessions[i].job_config_name : i \in 1..Len(all_sessions)}
        Of(job, f) == SumTo([i \in 1..Len(all_sessions) |->
                                IF all_sessions[i].job_config_name = job THEN f[i] ELSE 0],
                            Len(all_sessions))
    IN  /\ DOMAIN perf = names
        /\ \A job \in names :
              /\ perf[job].total_candidates = Of(job, ClosedTotals)
              /\ perf[job].filtered_candidates = Of(job, ClosedPassed)
              /\ perf[job].failure_count = Of(job, ClosedFailures)
              /\ IF perf[job].total_candidates = 0
                 THEN perf[job].filter_rate.num = 0 /\ perf[job].filter_rate.den # 0
                 ELSE IsRatio(perf[job].filter_rate,
                              perf[job].total_candidates - perf[job].filtered_candidates,
                              perf[job].total_candidates)
        /\ SumOver([job \in names |-> perf[job].total_candidates], names)
              = stats.overall_stats.total_candidates_processed
        /\ SumOver([job \in names |-> perf[job].filtered_candidates], names)
              = stats.overall_stats.total_candidates_passed
        /\ SumOver([job \in names |-> perf[job].failure_count], names)
              = stats.overall_stats.total_filter_failures

\* C9 as stated: each key "<filter_type>.<filter_name>" of the breakdown maps
\* to the number of closed failures with that type and that name, the
\* per-job entries are the per-job sums with their filter_rate, and the
\* breakdown counts and per-job totals add up to the overall figures.
C9_BreakdownPerTypeAndName ==
    all_sessions # <<>> =>
        LET stats == get_filter_stats[1]
            F     == ClosedFailureList
        IN  /\ \A i \in 1..Len(F) :
                  /\ KeyOf(F[i]) \in DOMAIN stats.failure_breakdown
                  /\ stats.failure_breakdown[KeyOf(F[i])]
                        = Cardinality({j \in 1..Len(F) :
                                          /\ F[j].filter_type = F[i].filter_type
                                          /\ F[j].filter_name = F[i].filter_name})
            /\ JobEntriesRight(stats)

\* C9, amended: each key of the breakdown maps to the number of closed
\* failures whose "<filter_type>.<filter_name>" is that key (type/name pairs
\* that format to the same key share one count); the keys are exactly the
\* keys of the closed failures; the per-job entries are the per-job sums with
\* their filter_rate; the breakdown counts add up to the overall failure
\* total and the per-job totals to the overall totals.
C9_BreakdownPerKey ==
    all_sessions # <<>> =>
        LET stats == get_filter_stats[1]
            F     == ClosedFailureList
            keys  == {KeyOf(F[i]) : i \in 1..Len(F)}
        IN  /\ DOMAIN stats.failure_breakdown = keys
            /\ \A k \in keys :
                  stats.failure_breakdown[k]
                     = Cardinality({j \in 1..Len(F) : KeyOf(F[j]) = k})
            /\ SumOver(stats.failure_breakdown, keys)
                  = stats.overall_stats.total_filter_failures
            /\ JobEntriesRight(stats)

\* two closed sessions of different jobs hold two failures of different
\* type and name whose keys coincide
C9_Witness ==
    /\ Len(all_sessions) = 2
    /\ all_sessions[1].job_config_name # all_sessions[2].job_config_name
    /\ Len(ClosedFailureList) = 2
    /\ ClosedFailureList[1].filter_type # ClosedFailureList[2].filter_type
    /\ KeyOf(ClosedFailureList[1]) = KeyOf(ClosedFailureList[2])

-----------------------------------------------------------------------------
(* load_from_file *)

\* the session dicts of the document in the file, <<>> without the key
PersistedSessions ==
    IF "sessions" \in DOMAIN log_file.data[1] THEN log_file.data[1].sessions ELSE <<>>

\* every persisted session has the fields of a session and its failures
\* the fields of a failure
Decodable ==
    \A i \in 1..Len(PersistedSessions) :
        /\ DOMAIN PersistedSessions[i] = SessionFields
        /\ \A k \in 1..Len(PersistedSessions[i].filter_failures) :
              DOMAIN PersistedSessions[i].filter_failures[k] = FailureFields

\* the load just made read an existing file and failed
LoadFailed ==
    /\ last_op.op = "load"
    /\ log_file.state # "absent"
    /\ (last_op.io # "ok" \/ log_file.state = "partial" \/ ~ Decodable)

\* the load just made read an existing file to its end
LoadSucceeded ==
    /\ last_op.op = "load"
    /\ log_file.state = "written"
    /\ last_op.io = "ok"
    /\ Decodable

\* C11: a load of an existing file never raises; when its read or decoding
\* fails, even after some sessions were decoded, the closed collection is
\* empty; when it succeeds the closed collection is the persisted sessions in
\* order
C11_LoadAllOrNothing ==
    /\ last_op.op = "load" => ~ last_op.raised
    /\ LoadFailed => all_sessions = <<>>
    /\ LoadSucceeded =>
          /\ Len(all_sessions) = Len(PersistedSessions)
          /\ \A i \in 1..Len(all_sessions) :
                SameSession(PersistedSessions[i], all_sessions[i])

\* a load failed at the second session of a document whose first session is
\* well formed
C11_Witness ==
    /\ LoadFailed
    /\ last_op.io = "ok"
    /\ log_file.state = "written"
    /\ Len(PersistedSessions) = 2
    /\ DOMAIN PersistedSessions[1] = SessionFields
    /\ all_sessions = <<>>

-----------------------------------------------------------------------------
(* search without candidates *)

\* search p has just gone through retrieval and got no candidate: no
\* embedding, a failing ns.query, or no rows
NoCandidates(p) ==
    /\ pc[p] = "idle"
    /\ pc'[p] # "idle"
    /\ \/ retrieval'[p][1].outcome \in {"no_embedding", "query_error"}
       \/ processed'[p] = <<>>

\* C12: a search whose embedding is absent, whose retrieval fails or whose
\* retrieval returns no candidate returns the empty list at once, leaves the
\* open slot, the closed collection and the durable copy as they were, and
\* does not call the retriever when the embedding is absent
C12_EmptyOnNoCandidates ==
    [][\A p \in Procs :
          NoCandidates(p) =>
             /\ pc'[p] = "returned"
             /\ result'[p] = <<>>
             /\ current_session' = current_session
             /\ all_sessions' = all_sessions
             /\ log_file' = log_file
             /\ (retrieval'[p][1].outcome = "no_embedding"
                    => ~ retrieval'[p][1].queried)]_vars

\* a search returned without an embedding after an earlier search had closed
\* a session
C12_Witness ==
    \E p \in Procs :
        /\ pc[p] = "returned"
        /\ retrieval[p] # <<>>
        /\ retrieval[p][1].outcome = "no_embedding"
        /\ ~ retrieval[p][1].queried
        /\ result[p] = <<>>
        /\ all_sessions # <<>>

-----------------------------------------------------------------------------
(* Scoring, normalization and ranking *)

\* the soft criteria of search p
SoftOf(p) == Get(JobOf(p), "soft_criteria", <<>>)

\* the searches that have scored and sorted a non-empty survivor list
Ranked == {p \in Procs : pc[p] = "returned" /\ filtered[p] # <<>>}

\* 1 - distance, in tenths, of the row the retriever holds under the id
SimilarityOf(id) ==
    10 - (CHOOSE row \in Namespace \cup RankedNamespace : row.id = id).dist

\* C13: every survivor's final_score is 0.4 * (1 - distance returned by the
\* retriever) + 0.6 * (the soft scorer's result under the job's soft
\* criteria); in hundredths, 4 * tenths + 30 * halves
C13_FinalScoreBlend ==
    \A p \in Ranked :
        \A i \in 1..Len(filtered[p]) :
            filtered[p][i].final_score =
                4 * SimilarityOf(filtered[p][i].id)
                + 30 * calculate_soft_score(filtered[p][i], SoftOf(p))

\* a survivor with similarity 0.5 and soft score 3.0 was scored 2.0
C13_Witness ==
    \E p \in Ranked :
        \E i \in 1..Len(filtered[p]) :
            /\ SimilarityOf(filtered[p][i].id) = 5
            /\ calculate_soft_score(filtered[p][i], SoftOf(p)) = 6
            /\ filtered[p][i].final_score = 200

\* a <= b for fractions with positive denominators
FracLeq(a, b) == a.num * b.den <= b.num * a.den

\* C14: over a non-empty survivor set every normalized_score lies in [0, 1];
\* when all final scores are equal (a single survivor included) every
\* normalized_score is exactly 0.5; a higher final_score never has a lower
\* normalized_score
C14_NormalizedScores ==
    \A p \in Ranked :
        LET cs == filtered[p]
        IN  /\ \A i \in 1..Len(cs) :
                  /\ cs[i].normalized_score.den > 0
                  /\ 0 <= cs[i].normalized_score.num
                  /\ cs[i].normalized_score.num <= cs[i].normalized_score.den
            /\ (\A i, j \in 1..Len(cs) : cs[i].final_score = cs[j].final_score)
                  => \A i \in 1..Len(cs) :
                        2 * cs[i].normalized_score.num = cs[i].normalized_score.den
            /\ \A i, j \in 1..Len(cs) :
                  cs[i].final_score > cs[j].final_score
                     => FracLeq(cs[j].normalized_score, cs[i].normalized_score)

\* three survivors with three different final scores were normalized, the
\* middle one strictly between 0 and 1
C14_Witness ==
    \E p \in Ranked :
        /\ Len(filtered[p]) = 3
        /\ \A i, j \in 1..3 : i # j => filtered[p][i].final_score # filtered[p][j].final_score
        /\ \E i \in 1..3 :
              /\ 0 < filtered[p][i].normalized_score.num
              /\ filtered[p][i].normalized_score.num < filtered[p][i].normalized_score.den

\* two survivors with equal final scores were normalized
C14_WitnessEqual ==
    \E p \in Ranked :
        /\ Len(filtered[p]) = 2
        /\ filtered[p][1].final_score = filtered[p][2].final_score
        /\ filtered[p][1].normalized_score = Fraction(1, 2)

\* the place of the candidate with the id among those search p retrieved
RetrievedAt(p, id) == CHOOSE k \in 1..Len(processed[p]) : processed[p][k].id = id

\* the ids of the candidates of search p that pass the hard criteria
SurvivorIds(p) ==
    {processed[p][k].id : k \in {n \in 1..Len(processed[p]) :
                                    MeetsHardCriteria(processed[p][n], HardOf(p))}}

\* C15: the ranked list holds exactly the survivors, in descending order of
\* normalized_score, and two survivors with equal normalized_score stand in
\* the order in which the retriever returned them
C15_RankedDescendingStable ==
    \A p \in Ranked :
        LET cs == filtered[p]
        IN  /\ {cs[i].id : i \in 1..Len(cs)} = SurvivorIds(p)
            /\ Len(cs) = Cardinality(SurvivorIds(p))
            /\ \A i, j \in 1..Len(cs) :
                  i < j => FracLeq(cs[j].normalized_score, cs[i].normalized_score)
            /\ \A i, j \in 1..Len(cs) :
                  (i < j /\ FracLeq(cs[i].normalized_score, cs[j].normalized_score))
                     => RetrievedAt(p, cs[i].id) < RetrievedAt(p, cs[j].id)

\* three survivors were ranked, two of them with equal scores below the
\* third's, and the ranking moved a candidate up
C15_Witness ==
    \E p \in Ranked :
        /\ Len(filtered[p]) = 3
        /\ filtered[p][2].normalized_score = filtered[p][3].normalized_score
        /\ filtered[p][1].normalized_score # filtered[p][2].normalized_score
        /\ RetrievedAt(p, filtered[p][1].id) # 1

\* C16: search returns the ids of the first min(K, number of survivors)
\* candidates of the ranked list, in ranked order, without padding or
\* repetition, and never more than K of them
C16_TopK ==
    \A p \in Procs :
        pc[p] = "returned" /\ processed[p] # <<>> =>
            LET K == args[p][1].top_k
                n == IF K < Len(filtered[p]) THEN K ELSE Len(filtered[p])
            IN  /\ Len(result[p]) = n
                /\ Len(result[p]) <= K
                /\ \A i \in 1..n : result[p][i] = filtered[p][i].id
                /\ \A i, j \in 1..n : i # j => result[p][i] # result[p][j]

\* a search with three survivors and K = 2 returned two ids, the first of
\* them not the first retrieved
C16_Witness ==
    \E p \in Ranked :
        /\ args[p][1].top_k = 2
        /\ Len(filtered[p]) = 3
        /\ Len(result[p]) = 2
        /\ result[p][1] # processed[p][1].id

\* a search with one survivor and K = 3 returned one id
C16_WitnessShort ==
    \E p \in Ranked :
        /\ args[p][1].top_k = 3
        /\ Len(filtered[p]) = 1
        /\ Len(result[p]) = 1

\* the ranked survivor of search p with the id
RankedAs(p, id) ==
    filtered[p][CHOOSE k \in 1..Len(filtered[p]) : filtered[p][k].id = id]

\* a fraction rounded to three decimals, in thousandths
Thousandths(f) == (2000 * f.num + f.den) \div (2 * f.den)

\* search p retrieved c1, c2, c3 with similarities 0.9, 0.5, 0.2, all three
\* pass the hard filters and their soft scores are 0, 0, 5
IsExample(p) ==
    /\ p \in Ranked
    /\ [k \in 1..Len(processed[p]) |-> processed[p][k].id] = <<"c1", "c2", "c3">>
    /\ [k \in 1..3 |-> SimilarityOf(processed[p][k].id)] = <<9, 5, 2>>
    /\ SurvivorIds(p) = {"c1", "c2", "c3"}
    /\ [k \in 1..3 |-> calculate_soft_score(processed[p][k], SoftOf(p))] = <<0, 0, 10>>

\* the final scores, the ranked order and the ids returned in the example
ExampleRanking(p) ==
    /\ RankedAs(p, "c1").final_score = 36
    /\ RankedAs(p, "c2").final_score = 20
    /\ RankedAs(p, "c3").final_score = 308
    /\ [k \in 1..3 |-> filtered[p][k].id] = <<"c3", "c1", "c2">>
    /\ args[p][1].top_k = 2 => result[p] = <<"c3", "c1">>

\* C17, as stated: in the example the final scores of c1, c2, c3 are 0.36,
\* 0.2, 3.08, their normalized scores 0, 0.056, 1, the ranked order is c3,
\* c1, c2 and top_k = 2 returns c3, c1
C17_ExampleAsStated ==
    \A p \in Procs :
        IsExample(p) =>
            /\ ExampleRanking(p)
            /\ Thousandths(RankedAs(p, "c1").normalized_score) = 0
            /\ Thousandths(RankedAs(p, "c2").normalized_score) = 56
            /\ Thousandths(RankedAs(p, "c3").normalized_score) = 1000

\* C17, amended: in the example the final scores of c1, c2, c3 are 0.36, 0.2,
\* 3.08, their normalized scores 0.056, 0, 1 (c2 holds the minimum), the
\* ranked order is c3, c1, c2 and top_k = 2 returns c3, c1
C17_Example ==
    \A p \in Procs :
        IsExample(p) =>
            /\ ExampleRanking(p)
            /\ Thousandths(RankedAs(p, "c1").normalized_score) = 56
            /\ Thousandths(RankedAs(p, "c2").normalized_score) = 0
            /\ Thousandths(RankedAs(p, "c3").normalized_score) = 1000

\* the example was searched with top_k = 2
C17_Witness ==
    \E p \in Procs :
        /\ IsExample(p)
        /\ args[p][1].top_k = 2
        /\ Len(result[p]) = 2

-----------------------------------------------------------------------------
(* Soft scoring *)

\* the same word, letter case aside
SameWord(a, b) == lower(<<a>>) = lower(<<b>>)

\* the keyword occurs in the candidate's full text followed by its summary
Occurs(kw, c) ==
    LET text == Get(c, "full_text", <<>>) \o Get(c, "rerank_summary", <<>>)
    IN  \E at \in 0..(Len(text) - Len(kw)) :
            \A k \in 1..Len(kw) : SameWord(text[at + k], kw[k])

\* the places in weight_factors of the factors with a keyword that occurs
MatchedFactors(c, sc) ==
    LET factors == Get(sc, "weight_factors", <<>>)
        lists   == Get(sc, "keywords", <<>>)
    IN  {f \in 1..Len(factors) :
            /\ factors[f][1] \in DOMAIN lists
            /\ \E k \in 1..Len(lists[factors[f][1]]) : Occurs(lists[factors[f][1]][k], c)}

\* the soft score the claim gives, in halves
ClaimedSoftScore(c, sc) ==
    LET factors == Get(sc, "weight_factors", <<>>)
        global  == Get(sc, "preferred_keywords", <<>>)
    IN  SumOver([f \in 1..Len(factors) |-> factors[f][2]], MatchedFactors(c, sc))
        + (IF \E k \in 1..Len(global) : Occurs(global[k], c) THEN 2 ELSE 0)
        + (IF "preferred_experience" \in DOMAIN sc
                /\ c.years_experience >= sc.preferred_experience
           THEN 4 ELSE 0)

\* C18: the soft score that enters a survivor's final_score is the sum of the
\* weights of exactly the factors with a keyword occurring in its text, each
\* weight once, plus 1.0 when a global preferred keyword occurs, plus 2.0
\* when years_experience >= preferred_experience
C18_SoftScore ==
    \A p \in Ranked :
        \A i \in 1..Len(filtered[p]) :
            /\ calculate_soft_score(filtered[p][i], SoftOf(p))
                  = ClaimedSoftScore(filtered[p][i], SoftOf(p))
            /\ filtered[p][i].final_score
                  = 4 * SimilarityOf(filtered[p][i].id)
                    + 30 * ClaimedSoftScore(filtered[p][i], SoftOf(p))

\* under weight_factors a: 3.0, b: 2.0 a survivor whose text holds two
\* keywords of a, one of them twice, and none of b was scored 3.0
C18_Witness ==
    \E p \in Ranked :
        \E i \in 1..Len(filtered[p]) :
            LET c == filtered[p][i]
                sc == SoftOf(p)
            IN  /\ sc # <<>>
                /\ Get(sc, "weight_factors", <<>>) = << <<"a", 6>>, <<"b", 4>> >>
                /\ MatchedFactors(c, sc) = {1}
                /\ \A k \in 1..Len(sc.keywords.a) : Occurs(sc.keywords.a[k], c)
                /\ Len(sc.keywords.a) = 2
                /\ ClaimedSoftScore(c, sc) = 6
                /\ c.final_score = 4 * SimilarityOf(c.id) + 180

-----------------------------------------------------------------------------
(* The hard filter, check by check *)

\* the candidates the filter of search p was given and has gone through
Filtered(p) ==
    IF pc[p] \in {"end", "rank", "returned"} THEN {processed[p][i] : i \in 1..Len(processed[p])}
    ELSE {}

\* the filter of search p kept the candidate
Kept(p, c) == \E i \in 1..Len(filtered[p]) : filtered[p][i] = c

\* years_experience, 0 when the candidate has none
YearsOf(c) == IF "years_experience" \in DOMAIN c THEN c.years_experience ELSE 0

\* the experience check of the claim
WithinBounds(c, hc) ==
    /\ ("min_years_experience" \notin DOMAIN hc \/ YearsOf(c) >= hc.min_years_experience)
    /\ ("max_years_experience" \notin DOMAIN hc \/ YearsOf(c) <= hc.max_years_experience)

\* C19: a candidate outside a configured experience bound is dropped, and a
\* candidate that meets the education and keyword criteria is kept iff
\* (min is absent or years >= min) and (max is absent or years <= max),
\* with missing years_experience counted as 0 and a bound of 0 applied
C19_ExperienceCheck ==
    \A p \in Procs :
        \A c \in Filtered(p) :
            /\ ~ WithinBounds(c, HardOf(p)) => ~ Kept(p, c)
            /\ (MeetsEducation(c, HardOf(p)) /\ MeetsKeywords(c, HardOf(p)))
                  => (Kept(p, c) <=> WithinBounds(c, HardOf(p)))

\* a candidate without years_experience was kept under min = 0 and max = 0,
\* next to nothing else configured
C19_Witness ==
    \E p \in Procs :
        \E c \in Filtered(p) :
            /\ "years_experience" \notin DOMAIN c
            /\ HardOf(p) = [min_years_experience |-> 0, max_years_experience |-> 0]
            /\ Kept(p, c)

\* a candidate with 3 years was dropped by max = 0
C19_WitnessBounds ==
    \E p \in Procs :
        \E c \in Filtered(p) :
            /\ YearsOf(c) = 3
            /\ DOMAIN HardOf(p) = {"max_years_experience"}
            /\ HardOf(p).max_years_experience = 0
            /\ ~ Kept(p, c)

\* the flag is set on the candidate
HasFlag(c, flag) == flag \in DOMAIN c /\ c[flag]

\* the entries of required_education, none when it is not configured
EducationEntries(hc) ==
    IF "required_education" \in DOMAIN hc
    THEN {hc.required_education[e] : e \in 1..Len(hc.required_education)}
    ELSE {}

\* the required-education check of the claim: every entry is satisfied, an
\* any_of entry by one of its flags, a `flag: true` entry by that flag
EducationSatisfied(c, hc) ==
    \A entry \in EducationEntries(hc) :
        IF entry[1] = "any_of"
        THEN \E f \in 1..Len(entry[2]) : HasFlag(c, entry[2][f])
        ELSE entry[2] = TRUE => HasFlag(c, entry[1])

\* C20: a candidate with an unsatisfied required_education entry is dropped,
\* and a candidate that meets the experience and keyword criteria is kept
\* iff every entry is satisfied: any_of by at least one listed flag, a
\* direct `flag: true` entry by that flag
C20_EducationCheck ==
    \A p \in Procs :
        \A c \in Filtered(p) :
            /\ ~ EducationSatisfied(c, HardOf(p)) => ~ Kept(p, c)
            /\ (WithinBounds(c, HardOf(p)) /\ MeetsKeywords(c, HardOf(p)))
                  => (Kept(p, c) <=> EducationSatisfied(c, HardOf(p)))

\* a candidate with has_llm alone was kept under any_of [has_jd, has_llm]
C20_Witness ==
    \E p \in Procs :
        \E c \in Filtered(p) :
            /\ HasFlag(c, "has_llm")
            /\ ~ HasFlag(c, "has_jd")
            /\ <<"any_of", <<"has_jd", "has_llm">> >> \in EducationEntries(HardOf(p))
            /\ Kept(p, c)

\* a candidate without any flag was dropped by has_bachelors: true
C20_WitnessDropped ==
    \E p \in Procs :
        \E c \in Filtered(p) :
            /\ "has_jd" \notin DOMAIN c
            /\ EducationEntries(HardOf(p)) = { <<"has_bachelors", TRUE>> }
            /\ DOMAIN HardOf(p) = {"required_education"}
            /\ ~ Kept(p, c)

\* the required keywords, none when they are not configured
RequiredKeywords(hc) ==
    IF "required_keywords" \in DOMAIN hc
    THEN {hc.required_keywords[k] : k \in 1..Len(hc.required_keywords)}
    ELSE {}

\* C21: a candidate missing a required keyword is dropped, and a candidate
\* that meets the experience and education criteria is kept iff every
\* required keyword occurs, letter case aside, in its full text followed by
\* its summary
C21_KeywordCheck ==
    \A p \in Procs :
        \A c \in Filtered(p) :
            /\ (\E kw \in RequiredKeywords(HardOf(p)) : ~ Occurs(kw, c)) => ~ Kept(p, c)
            /\ (WithinBounds(c, HardOf(p)) /\ EducationSatisfied(c, HardOf(p)))
                  => (Kept(p, c) <=> \A kw \in RequiredKeywords(HardOf(p)) : Occurs(kw, c))

\* a candidate was kept by two required keywords that stand in its summary
\* alone, one of them written there in another letter case
C21_Witness ==
    \E p \in Procs :
        \E c \in Filtered(p) :
            /\ Cardinality(RequiredKeywords(HardOf(p))) = 2
            /\ "full_text" \in DOMAIN c
            /\ "rerank_summary" \in DOMAIN c
            /\ \A kw \in RequiredKeywords(HardOf(p)) :
                  /\ ~ Contains(lower(c.full_text), lower(kw))
                  /\ Occurs(kw, c)
            /\ \E kw \in RequiredKeywords(HardOf(p)) : ~ Contains(c.rerank_summary, kw)
            /\ Kept(p, c)

\* a candidate whose text holds one of two required keywords was dropped
C21_WitnessMissing ==
    \E p \in Procs :
        \E c \in Filtered(p) :
            /\ DOMAIN HardOf(p) = {"required_keywords"}
            /\ \E kw \in RequiredKeywords(HardOf(p)) : Occurs(kw, c)
            /\ \E kw \in RequiredKeywords(HardOf(p)) : ~ Occurs(kw, c)
            /\ ~ Kept(p, c)

-----------------------------------------------------------------------------
(* log_filter_failure and start_session, step by step *)

\* the session with its failure list left out
Header(session) ==
    [job_config_name            |-> session.job_config_name,
     query                      |-> session.query,
     total_candidates           |-> session.total_candidates,
     candidates_after_filtering |-> session.candidates_after_filtering]

\* C22: log_failure with no session open leaves the open slot empty and the
\* closed collection and the durable copy as they were, and does not raise;
\* with a session open it appends exactly one failure to that session and
\* changes nothing else
C22_LogFailure ==
    [][last_op'.op = "log" =>
          /\ ~ last_op'.raised
          /\ all_sessions' = all_sessions
          /\ log_file' = log_file
          /\ IF current_session = <<>>
             THEN current_session' = <<>>
             ELSE /\ Len(current_session') = 1
                  /\ Header(current_session'[1]) = Header(current_session[1])
                  /\ Len(current_session'[1].filter_failures)
                        = Len(current_session[1].filter_failures) + 1
                  /\ SubSeq(current_session'[1].filter_failures, 1,
                            Len(current_session[1].filter_failures))
                        = current_session[1].filter_failures]_vars

\* a failure was logged with no session open, after a session was closed
C22_Witness ==
    /\ last_op.op = "log"
    /\ current_session = <<>>
    /\ all_sessions # <<>>
    /\ log_file.state = "written"

\* a second failure was logged into the open session
C22_WitnessOpen ==
    /\ last_op.op = "log"
    /\ current_session # <<>>
    /\ Len(current_session[1].filter_failures) = 2

\* C23: start leaves the closed collection unchanged and makes the open
\* session exactly (job, query, total, 0, no failures), whatever was open
\* before; an end with no session open changes nothing; and the closed
\* collection grows only by an end, and then by the session open at that
\* end: a session replaced by a start is never closed
C23_StartReplacesOpen ==
    [][/\ last_op'.op = "start" =>
             /\ all_sessions' = all_sessions
             /\ log_file' = log_file
             /\ \E job \in JobNames, query \in Queries, total \in Totals :
                   current_session' =
                      <<[job_config_name            |-> job,
                         query                      |-> query,
                         total_candidates           |-> total,
                         candidates_after_filtering |-> 0,
                         filter_failures            |-> <<>>]>>
       /\ (last_op'.op = "end" /\ current_session = <<>>) =>
             /\ current_session' = <<>>
             /\ all_sessions' = all_sessions
             /\ log_file' = log_file
       /\ all_sessions' # all_sessions =>
             /\ last_op'.op = "end"
             /\ current_session # <<>>
             /\ Len(all_sessions') = Len(all_sessions) + 1
             /\ SubSeq(all_sessions', 1, Len(all_sessions)) = all_sessions
             /\ Header(all_sessions'[Len(all_sessions')])
                   = [Header(current_session[1]) EXCEPT
                         !.candidates_after_filtering = last_op'.n]
             /\ all_sessions'[Len(all_sessions')].filter_failures
                   = current_session[1].filter_failures]_vars

\* one session is closed, none is open, and the end just called found no
\* session open: the state after start A, start B, end, end
C23_Witness ==
    /\ last_op.op = "end"
    /\ last_op.io = "none"
    /\ current_session = <<>>
    /\ Len(all_sessions) = 1
    /\ all_sessions[1].job_config_name = "Biology Expert"

\* a session was started while sessions were closed
C23_WitnessStart ==
    /\ last_op.op = "start"
    /\ current_session # <<>>
    /\ current_session[1].filter_failures = <<>>
    /\ all_sessions # <<>>

-----------------------------------------------------------------------------
(* One search over one retrieved candidate whose text states its experience *)

MaxRanges == 3        \* date ranges in a candidate's text

\* the date ranges the texts are made of: overlapping, touching and disjoint
\* ones, one ending in a marker word, one starting before 1980, one ending
\* after the current year, one of two-digit years, one that runs backwards
DateSegments ==
    { <<D(<<2, 0, 1, 0>>), W("-"), D(<<2, 0, 1, 5>>)>>,
      <<D(<<2, 0, 1, 4>>), W("-"), D(<<2, 0, 1, 8>>)>>,
      <<D(<<2, 0, 0, 5>>), W("-"), D(<<2, 0, 0, 8>>)>>,
      <<D(<<2, 0, 1, 5>>), W("to"), D(<<2, 0, 1, 7>>)>>,
      <<D(<<2, 0, 1, 9>>), W("-"), W("Present")>>,
      <<D(<<1, 9, 7, 5>>), W("-"), D(<<1, 9, 9, 0>>)>>,
      <<D(<<2, 0, 2, 0>>), W("-"), D(<<2, 0, 3, 0>>)>>,
      <<D(<<1, 5>>), W("-"), D(<<2, 0>>)>>,
      <<D(<<2, 0, 1, 8>>), W("-"), D(<<2, 0, 1, 2>>)>> }

\* the explicit phrase a text opens with, if any
ExplicitPhrases ==
    { <<>>,
      <<D(<<1, 0>>), W("years"), W("of"), W("experience")>>,
      <<D(<<6, 0>>), W("years"), W("of"), W("professional"), W("experience")>> }

RECURSIVE Flatten(_)
\* the texts of a sequence, one after the other
Flatten(texts) == IF texts = <<>> THEN <<>> ELSE Head(texts) \o Flatten(Tail(texts))

\* candidate texts: a phrase, then up to MaxRanges date ranges in any order
ExperienceTexts ==
    { phrase \o Flatten(segments) :
        phrase \in ExplicitPhrases,
        segments \in UNION {[1..n -> DateSegments] : n \in 0..MaxRanges} }

\* the rows of the retriever's namespace: a row per text (the empty text
\* among them), rows that come with a years_experience attribute of their
\* own, and a row with no text attribute at all
ExperienceNamespace ==
    { [id |-> "c1", dist |-> 1, attributes |-> [name |-> "Ann", full_text |-> text]] :
        text \in ExperienceTexts }
    \cup
    { [id |-> "c2", dist |-> 5, attributes |-> attributes] :
        attributes \in
          { [name |-> "Bob", years_experience |-> 120],
            [name |-> "Bob", years_experience |-> 120,
             full_text |-> <<D(<<2, 0, 0, 5>>), W("-"), D(<<2, 0, 0, 8>>)>>],
            [name |-> "Bob", years_experience |-> 120,
             rerank_summary |-> <<D(<<6, 0>>), W("years"), W("of"), W("experience")>>] } }

\* what ns.query can return: nothing or one row
ExperienceRetrievals == {<<>>} \cup { <<row>> : row \in ExperienceNamespace }

\* job configurations: soft criteria without preferred_experience; a minimum
\* experience with a preferred_experience; a required degree
ExperienceConfigs ==
    { [name |-> "Tax Lawyer",
       hard_criteria |-> <<>>,
       soft_criteria |-> [preferred_keywords |-> << <<W("experience")>> >>]],
      [name |-> "Tax Lawyer",
       hard_criteria |-> [min_years_experience |-> 1],
       soft_criteria |-> [preferred_experience |-> 5]],
      [name |-> "Biology Expert",
       hard_criteria |-> [required_education |-> << <<"has_bachelors", TRUE>> >>],
       soft_criteria |-> <<>>] }

ExperienceNext ==
    \/ SearchCallFrom(1, ExperienceConfigs, ExperienceRetrievals, {1})
    \/ SearchStart(1)
    \/ SearchFilter(1)
    \/ SearchEnd(1)
    \/ SearchReturn(1)

ExperienceSpec == Init /\ [][ExperienceNext]_vars


-----------------------------------------------------------------------------
(* Years of experience *)

\* the enriched candidates of the search
Enriched == {processed[1][i] : i \in 1..Len(processed[1])}

\* the text enrichment reads: full_text, else the summary
TextOf(c) ==
    IF Get(c, "full_text", <<>>) # <<>> THEN c.full_text
    ELSE Get(c, "rerank_summary", <<>>)

\* the text opens with "<N> years of ..."
HasPhrase(text) == Len(text) >= 2 /\ IsNum(text[1]) /\ text[2] = W("years")

\* the date ranges the extractor found in the text, as a set
FoundRanges(text) ==
    LET found == find_date_ranges(lower(text), 1, CurrentYear)
    IN  {found[i] : i \in 1..Len(found)}

\* the number of years covered by at least one of the ranges
UnionLength(ranges) ==
    Cardinality({y \in 1980..(CurrentYear - 1) : \E r \in ranges : r[1] <= y /\ y < r[2]})

\* the merged intervals the sweep leaves for the text
MergedOf(text) ==
    merge_ranges(sort_ranges(find_date_ranges(lower(text), 1, CurrentYear)), <<>>)

\* C24: for the valid date ranges found in a text, date_range_years (the
\* extracted years_experience of a text with no explicit phrase) is the
\* length of the union of the ranges, whatever their order in the text:
\* 2010-2015 with 2014-2018 gives 8, 2005-2008 with 2015-2017 gives 5; the
\* merged intervals are pairwise disjoint and do not touch, and cover
\* exactly the years the ranges cover
C24_UnionOfRanges ==
    \A c \in Enriched :
        LET text == TextOf(c)
            found == FoundRanges(text)
            merged == MergedOf(text)
        IN  /\ ~ HasPhrase(text) => c.years_experience = UnionLength(found)
            /\ \A i, j \in 1..Len(merged) : i < j => merged[i][2] < merged[j][1]
            /\ \A i \in 1..Len(merged) : merged[i][1] < merged[i][2]
            /\ \A y \in 1980..(CurrentYear - 1) :
                  (\E i \in 1..Len(merged) : merged[i][1] <= y /\ y < merged[i][2])
                  <=> (\E r \in found : r[1] <= y /\ y < r[2])
            /\ found = {<<2010, 2015>>, <<2014, 2018>>} => merged = << <<2010, 2018>> >>
            /\ found = {<<2005, 2008>>, <<2015, 2017>>}
                  => merged = << <<2005, 2008>>, <<2015, 2017>> >>

\* a text with 2014-2018 before 2010-2015 was given 8 years
C24_Witness ==
    \E c \in Enriched :
        /\ c.full_text = <<D(<<2, 0, 1, 4>>), W("-"), D(<<2, 0, 1, 8>>),
                           D(<<2, 0, 1, 0>>), W("-"), D(<<2, 0, 1, 5>>)>>
        /\ c.years_experience = 8

\* a text with the disjoint 2005-2008 and 2015-2017 was given 5 years
C24_WitnessDisjoint ==
    \E c \in Enriched :
        /\ c.full_text = <<D(<<2, 0, 0, 5>>), W("-"), D(<<2, 0, 0, 8>>),
                           D(<<2, 0, 1, 5>>), W("to"), D(<<2, 0, 1, 7>>)>>
        /\ c.years_experience = 5

\* a text with the touching 2010-2015 and 15-20 and the overlapping
\* 2014-2018 was given the 10 years of 2010-2020
C24_WitnessTouching ==
    \E c \in Enriched :
        /\ FoundRanges(TextOf(c)) = {<<2010, 2015>>, <<2015, 2020>>, <<2014, 2018>>}
        /\ ~ HasPhrase(TextOf(c))
        /\ c.years_experience = 10

\* a year as the text writes it, two digits standing for 20xx
YearOf(digits) == IF Len(digits) = 2 THEN 2000 + int(digits) ELSE int(digits)

IsSeparator(tok) == tok \in {W("-"), W("to")}
IsMarker(tok) == IsWord(tok) /\ lower(<<tok>>)[1].w \in {"present", "current", "today"}

\* the ranges the text states with a year at both ends
NumericRanges(text) ==
    { <<YearOf(text[i].d), YearOf(text[i + 2].d)>> :
        i \in {k \in 1..(Len(text) - 2) :
                 IsNum(text[k]) /\ IsSeparator(text[k + 1]) /\ IsNum(text[k + 2])} }

\* the ranges the text states with a marker as the end, ending this year
MarkerRanges(text) ==
    { <<YearOf(text[i].d), CurrentYear>> :
        i \in {k \in 1..(Len(text) - 2) :
                 IsNum(text[k]) /\ IsSeparator(text[k + 1]) /\ IsMarker(text[k + 2])} }

\* 1980 <= start < end <= current_year
ValidRange(r) == 1980 <= r[1] /\ r[1] < r[2] /\ r[2] <= CurrentYear

\* C25: a date range whose end is a present/current/today marker ends in the
\* current calendar year: a range S - present with 1980 <= S < current_year
\* is valid and contributes the interval [S, current_year] to the experience
\* computed for the text
C25_PresentEndsThisYear ==
    \A c \in Enriched :
        LET text == TextOf(c)
            stated == {r \in NumericRanges(text) \cup MarkerRanges(text) : ValidRange(r)}
        IN  ~ HasPhrase(text) => c.years_experience = UnionLength(stated)

\* C26: only date ranges with 1980 <= start < end <= current_year, two-digit
\* years read as 20xx, enter the merge; a range outside these bounds is
\* dropped, adds nothing to the extracted years, and the valid ranges stated
\* before and after it are still counted
C26_OnlyValidRanges ==
    \A c \in Enriched :
        LET text == TextOf(c)
            found == FoundRanges(text)
            valid == {r \in NumericRanges(text) : ValidRange(r)}
        IN  /\ \A r \in found : ValidRange(r)
            /\ found \subseteq NumericRanges(text) \cup MarkerRanges(text)
            /\ valid \subseteq found
            /\ (~ HasPhrase(text) /\ MarkerRanges(text) = {})
                  => c.years_experience = UnionLength(valid)

\* a text stating 1975-1990, 2010-2015 and 2020-2030 was given the 5 years
\* of 2010-2015
C26_Witness ==
    \E c \in Enriched :
        /\ c.full_text = <<D(<<1, 9, 7, 5>>), W("-"), D(<<1, 9, 9, 0>>),
                           D(<<2, 0, 1, 0>>), W("-"), D(<<2, 0, 1, 5>>),
                           D(<<2, 0, 2, 0>>), W("-"), D(<<2, 0, 3, 0>>)>>
        /\ c.years_experience = 5

\* a text stating 15 - 20 alone was given the 5 years of 2015-2020
C26_WitnessTwoDigits ==
    \E c \in Enriched :
        /\ c.full_text = <<D(<<1, 5>>), W("-"), D(<<2, 0>>)>>
        /\ FoundRanges(c.full_text) = {<<2015, 2020>>}
        /\ c.years_experience = 5

\* a text stating 2018 - 2012 and 2005-2008 was given 3 years
C26_WitnessBackwards ==
    \E c \in Enriched :
        /\ c.full_text = <<D(<<2, 0, 1, 8>>), W("-"), D(<<2, 0, 1, 2>>),
                           D(<<2, 0, 0, 5>>), W("-"), D(<<2, 0, 0, 8>>)>>
        /\ c.years_experience = 3

\* the N of the explicit phrase the text opens with, 0 without one
ExplicitYears(text) == IF HasPhrase(text) THEN int(text[1].d) ELSE 0

\* the years covered by the date ranges found in the text
DateRangeYears(text) == UnionLength(FoundRanges(text))

\* C27: the extracted years of experience is min(max(explicit_years,
\* date_range_years), 50) for every text: the two are never added (an
\* explicit 10 years with a 3-year date range gives 10), a value above 50
\* becomes 50, the result is an integer in 0..50, and 0 for a missing text
C27_MaxThenClamp ==
    \A c \in Enriched :
        LET text == TextOf(c)
            explicit_years == ExplicitYears(text)
            date_range_years == DateRangeYears(text)
        IN  /\ c.years_experience \in 0..50
            /\ c.years_experience
                  = (IF explicit_years >= date_range_years /\ explicit_years <= 50
                        THEN explicit_years
                     ELSE IF date_range_years >= explicit_years /\ date_range_years <= 50
                        THEN date_range_years
                     ELSE 50)
            /\ text = <<>> => c.years_experience = 0

\* a text stating 10 years of experience and 2005-2008 was given 10 years
C27_Witness ==
    \E c \in Enriched :
        /\ c.full_text = <<D(<<1, 0>>), W("years"), W("of"), W("experience"),
                           D(<<2, 0, 0, 5>>), W("-"), D(<<2, 0, 0, 8>>)>>
        /\ c.years_experience = 10

\* a text stating 60 years of professional experience was given 50 years
C27_WitnessClamped ==
    \E c \in Enriched :
        /\ ExplicitYears(TextOf(c)) = 60
        /\ c.years_experience = 50

\* a text stating 10 years of experience and date ranges covering 13 years
\* was given 13 years
C27_WitnessDates ==
    \E c \in Enriched :
        /\ ExplicitYears(TextOf(c)) = 10
        /\ DateRangeYears(TextOf(c)) = 13
        /\ c.years_experience = 13

\* a candidate with an empty text was given 0 years
C27_WitnessMissing ==
    \E c \in Enriched : "full_text" \in DOMAIN c /\ c.full_text = <<>> /\ c.years_experience = 0

-----------------------------------------------------------------------------
(* The experience bonus without a preferred_experience *)

\* the soft score without the experience bonus, in halves: the weights of
\* the matched factors and 1.0 for a global preferred keyword
ScoreWithoutBonus(c, sc) ==
    LET factors == Get(sc, "weight_factors", <<>>)
        global  == Get(sc, "preferred_keywords", <<>>)
    IN  SumOver([f \in 1..Len(factors) |-> factors[f][2]], MatchedFactors(c, sc))
        + (IF \E k \in 1..Len(global) : Occurs(global[k], c) THEN 2 ELSE 0)

\* the retriever's row of the candidate came with a years_experience of 99
\* or more
RetrievedWithYears(c) ==
    \E row \in ExperienceNamespace :
        /\ row.id = c.id
        /\ TextOf(row.attributes) = TextOf(c)
        /\ "years_experience" \in DOMAIN row.attributes
        /\ row.attributes.years_experience >= 99

\* C28: when soft_criteria has no preferred_experience, no candidate that
\* reaches scoring gets the +2.0 experience bonus: its years_experience is
\* the value enrichment derived from its text, at most 50 and below the
\* default threshold of 99, whatever years_experience the retriever supplied,
\* and its final_score holds the soft score without the bonus
C28_NoBonusByDefault ==
    \A p \in Ranked :
        "preferred_experience" \notin DOMAIN SoftOf(p) =>
            \A i \in 1..Len(filtered[p]) :
                LET c == filtered[p][i]
                    text == TextOf(c)
                IN  /\ c.years_experience \in 0..50
                    /\ c.years_experience
                          = Min(Max(ExplicitYears(text), DateRangeYears(text)), 50)
                    /\ c.final_score
                          = 4 * c.vector_similarity + 30 * ScoreWithoutBonus(c, SoftOf(p))

\* a candidate retrieved with years_experience 120 and a summary stating 60
\* years was scored at 50 years under soft criteria without
\* preferred_experience: 0.4 * 0.5 + 0.6 * 1.0
C28_Witness ==
    \E p \in Ranked :
        /\ SoftOf(p) # <<>>
        /\ "preferred_experience" \notin DOMAIN SoftOf(p)
        /\ \E i \in 1..Len(filtered[p]) :
              /\ RetrievedWithYears(filtered[p][i])
              /\ filtered[p][i].years_experience = 50
              /\ filtered[p][i].final_score = 80

\* a candidate retrieved with years_experience 120 and no text was scored at
\* 0 years
C28_WitnessNoText ==
    \E p \in Ranked :
        /\ "preferred_experience" \notin DOMAIN SoftOf(p)
        /\ \E i \in 1..Len(filtered[p]) :
              /\ RetrievedWithYears(filtered[p][i])
              /\ TextOf(filtered[p][i]) = <<>>
              /\ filtered[p][i].years_experience = 0
              /\ filtered[p][i].final_score = 20

\* under a preferred_experience of 5 a candidate of 10 years got the bonus
C28_WitnessBonus ==
    \E p \in Ranked :
        /\ "preferred_experience" \in DOMAIN SoftOf(p)
        /\ \E i \in 1..Len(filtered[p]) :
              /\ filtered[p][i].years_experience = 10
              /\ filtered[p][i].final_score = 4 * filtered[p][i].vector_similarity + 120

-----------------------------------------------------------------------------
(* Enrichment of a candidate without text *)

\* the retriever's row the candidate was made from
RowOf(c) ==
    CHOOSE row \in ExperienceNamespace : row.id = c.id /\ TextOf(row.attributes) = TextOf(c)

\* the fields of the retrieved row are on the candidate as retrieved, the
\* derived years_experience aside
KeepsRetrieved(c) ==
    /\ c.id = RowOf(c).id
    /\ c.vector_similarity = 10 - RowOf(c).dist
    /\ \A k \in DOMAIN RowOf(c).attributes \ {"years_experience"} :
          k \in DOMAIN c /\ c[k] = RowOf(c).attributes[k]

\* years_experience 0 and the six education flags false
DerivedDefaults(c) ==
    /\ c.years_experience = 0
    /\ \A flag \in {"has_bachelors", "has_masters", "has_phd", "has_jd", "has_llm", "has_md"} :
          flag \in DOMAIN c /\ c[flag] = FALSE

\* every university-tier flag is on the candidate and false
TierDefaults(c) ==
    \A tier_name \in DOMAIN university_tiers : tier_name \in DOMAIN c /\ c[tier_name] = FALSE

\* once the filter has run, the candidate is among the survivors exactly
\* when the job has no hard criteria or it meets them all
FilteredAsAnyOther(c) ==
    pc[1] \in {"end", "rank", "returned"} =>
        ((\E i \in 1..Len(filtered[1]) : filtered[1][i].id = c.id)
            <=> (HardOf(1) = <<>> \/ MeetsHardCriteria(c, HardOf(1))))

\* under a criterion that needs a positive attribute (a minimum experience
\* above 0, a required degree) the candidate is not among the survivors
FailsPositiveCriteria(c) ==
    (/\ pc[1] \in {"end", "rank", "returned"}
     /\ \/ Get(HardOf(1), "min_years_experience", 0) > 0
        \/ Get(HardOf(1), "required_education", <<>>) # <<>>)
    => filtered[1] = <<>>

\* C29: enriching a candidate with neither full text nor summary does not
\* fail: the candidate comes back with its retrieved fields and with
\* years_experience 0, the six education flags false and the university-tier
\* flags false, and then goes through the hard filter like any other,
\* failing every criterion that needs a positive attribute
C29_NoTextDefaults ==
    \A c \in Enriched :
        TextOf(c) = <<>> =>
            /\ KeepsRetrieved(c)
            /\ DerivedDefaults(c)
            /\ TierDefaults(c)
            /\ FilteredAsAnyOther(c)
            /\ FailsPositiveCriteria(c)

\* the rest of C29 around the tier flags: retrieved fields kept, years 0,
\* education flags false, filtered as any other candidate
NoTextDefaultsButTiers ==
    \A c \in Enriched :
        TextOf(c) = <<>> =>
            /\ KeepsRetrieved(c)
            /\ DerivedDefaults(c)
            /\ FilteredAsAnyOther(c)
            /\ FailsPositiveCriteria(c)

\* a candidate without text was dropped by a required degree
NoTextDropped ==
    \E c \in Enriched :
        /\ TextOf(c) = <<>>
        /\ pc[1] = "returned"
        /\ Get(HardOf(1), "required_education", <<>>) # <<>>
        /\ filtered[1] = <<>>

\* a candidate without text went through a search without hard criteria
NoTextKept ==
    \E c \in Enriched :
        /\ TextOf(c) = <<>>
        /\ pc[1] = "returned"
        /\ result[1] = <<c.id>>

====
